---- MODULE Spec2Model ----
(***************************************************************************)
(* Session and token lifecycle of custos (julesChu12/fly): the user,       *)
(* refresh-token and session tables, the AuthService operations that       *)
(* drive them, the admin operations on principals and the RequireAuth      *)
(* gateway.  Each request is a frame that advances one database statement *)
(* per step.  Spec runs every request to completion before the next one    *)
(* starts; SpecRace lets the requests of two workers interleave between    *)
(* their statements.                                                       *)
(***************************************************************************)
EXTENDS Integers, Sequences, FiniteSets, TLC

VARIABLES
  users,          \* users table, in id order (id = position, autoIncrement)
  refreshTokens,  \* refresh_tokens table, in id order (id = position)
  sessions,       \* sessions table, in insertion order
  now,            \* wall clock (time.Now), in ticks
  nextSecret,     \* the next value crypto/rand hands to GenerateRefreshToken
  nextSessionID,  \* the next value uuid.New hands to NewSession
  proc,           \* per worker: the request in flight and its locals
  issued,         \* token pairs returned to callers, in order of return
  adminOps,       \* number of admin requests started
  wins,           \* per refresh secret: successful Refresh calls that presented it
  loggedOut,      \* session ids for which Logout has returned without error
  jwkKeys,        \* jwk_keys table: the signing keys, one row per kid
  jwks,           \* a JWKSValidator and the key set published at its jwksURL
  mq              \* a MemoryMQ: its subscriptions, their workers and the messages

\* The state outside the session and token lifecycle.
others == <<jwkKeys, jwks, mq>>

vars == <<users, refreshTokens, sessions, now, nextSecret, nextSessionID,
          proc, issued, adminOps, wins, loggedOut, others>>

(***************************************************************************)
(* Bounds of the model.                                                    *)
(***************************************************************************)
MaxSecrets == 3
MaxTime == 2
MaxAdminOps == 1
MaxAdminRequests == 2

(***************************************************************************)
(* Configuration and input sets.                                           *)
(***************************************************************************)
RefreshTTL == 2
AccessTTL == 2

Procs == {"w1", "w2"}
Usernames == {"alice", "bob"}
RegisterInputs ==
  {<<"alice", "alice@x.com">>, <<"bob", "bob@x.com">>, <<"bob", "alice@x.com">>}
RegisterPasswords == {"Secret123!"}
LoginPasswords == {"Secret123!", "WrongPass1"}
StatusInputs == {"active", "inactive"}
SecretKey == "secret"
JWTIssuer == "custos-auth"

PasswordMinLength == 8
PasswordMaxLength == 128
UsernameMinLength == 3
\* A variant of UsernameMaxLength: the username is held to the password's limit.
UsernameLimitOfPassword == PasswordMaxLength
UsernameMaxLength == 50

(***************************************************************************)
(* Pure helpers.                                                           *)
(***************************************************************************)
Sha256Sum(t) == 1000 + 7 * t

RawURLEncode(b) == 2 * b + 1

HashRefreshToken(token) == RawURLEncode(Sha256Sum(token))

hashPassword(password) == <<"bcrypt", password>>

checkPassword(password, hash) == hash = hashPassword(password)

NewUser(username, email, hashedPassword) ==
  [username |-> username, email |-> email, password |-> hashedPassword,
   status |-> "active", role |-> "user", tokenVersion |-> 0, mergedInto |-> 0]

\* A variant of IsActive that only turns away deleted principals.
IsNotDeleted(u) == u.status # "deleted"

IsActive(u) == u.status = "active"

\* A variant of NewRefreshToken that stores the secret itself, not its hash.
NewRefreshTokenPlain(userID, token, expiresAt) ==
  [userID |-> userID, tokenHash |-> token,
   isUsed |-> FALSE, expiresAt |-> expiresAt, deleted |-> FALSE]

NewRefreshToken(userID, token, expiresAt) ==
  [userID |-> userID, tokenHash |-> RawURLEncode(Sha256Sum(token)),
   isUsed |-> FALSE, expiresAt |-> expiresAt, deleted |-> FALSE]

NewSession(userID, sessionID) ==
  [userID |-> userID, sessionID |-> sessionID, refreshTokenID |-> 0,
   revoked |-> FALSE, createdAt |-> 0]

IsValid(s) == ~s.revoked

Idle == [op |-> "idle"]

(***************************************************************************)
(* The world a step reads and writes: the three tables, the clock, the     *)
(* random sources and the pairs handed to callers.  Its field last is what *)
(* the request returns to its caller; it is an output, not stored state.   *)
(***************************************************************************)
\* What a request returned: the operation, its outcome, the session id and
\* the refresh secret returned (or presented), the principal, and the index
\* in issued of the pair returned (or presented).
Returned(op, out, sid, secret, uid, ix) ==
  [op |-> op, out |-> out, sid |-> sid, secret |-> secret, uid |-> uid,
   ix |-> ix]

NoReturn == Returned("none", "none", 0, 0, 0, 0)

World ==
  [users |-> users, refreshTokens |-> refreshTokens, sessions |-> sessions,
   now |-> now, nextSecret |-> nextSecret, nextSessionID |-> nextSessionID,
   issued |-> issued, wins |-> wins, loggedOut |-> loggedOut,
   last |-> NoReturn]

Commit(w) ==
  /\ users' = w.users
  /\ refreshTokens' = w.refreshTokens
  /\ sessions' = w.sessions
  /\ now' = w.now
  /\ nextSecret' = w.nextSecret
  /\ nextSessionID' = w.nextSessionID
  /\ issued' = w.issued
  /\ wins' = w.wins
  /\ loggedOut' = w.loggedOut
  /\ UNCHANGED others

Done(w, ret) == [w |-> [w EXCEPT !.last = ret], f |-> Idle]

Goto(w, f) == [w |-> w, f |-> f]

(***************************************************************************)
(* Access tokens (TokenService).  A token is a JWT: its header, its        *)
(* payload (the JSON object of TokenClaims, under the json tags, which has *)
(* no version claim) and the HS256 signature over both.                    *)
(***************************************************************************)
\* jwt.SigningMethodHS256: the signature of header and payload under a key.
Sign(key, header, payload) == <<"HS256", key, header, payload>>

GenerateAccessToken(t, sessionID, userID, username, role) ==
  LET header == [alg |-> "HS256", typ |-> "JWT"]
      payload == [user_id |-> userID, username |-> username, role |-> role,
                  session_id |-> sessionID, iss |-> JWTIssuer,
                  sub |-> ToString(userID), iat |-> t, exp |-> t + AccessTTL,
                  nbf |-> t]
  IN [header |-> header, payload |-> payload,
      sig |-> Sign(SecretKey, header, payload)]

\* A variant of DecodeClaims whose SessionID field carries the user_id tag.
DecodeClaimsWrongTag(payload) ==
  [UserID |-> payload.user_id, Username |-> payload.username,
   Role |-> payload.role, SessionID |-> payload.user_id,
   Issuer |-> payload.iss, Subject |-> payload.sub, IssuedAt |-> payload.iat,
   ExpiresAt |-> payload.exp, NotBefore |-> payload.nbf]

\* The payload decoded into a TokenClaims value, field by json tag.
DecodeClaims(payload) ==
  [UserID |-> payload.user_id, Username |-> payload.username,
   Role |-> payload.role, SessionID |-> payload.session_id,
   Issuer |-> payload.iss, Subject |-> payload.sub, IssuedAt |-> payload.iat,
   ExpiresAt |-> payload.exp, NotBefore |-> payload.nbf]

\* jwt.ParseWithClaims (golang-jwt v5): the text of the error it returns, ""
\* when the token verifies.  A claims failure is wrapped, so the text of an
\* expired token is not the bare "token is expired".
ParseWithClaims(t, tok) ==
  IF tok.header.alg # "HS256"
  THEN "token is unverifiable: error while executing keyfunc: unexpected signing method"
  ELSE IF tok.sig # Sign(SecretKey, tok.header, tok.payload)
  THEN "token signature is invalid: signature is invalid"
  ELSE IF ~(t < DecodeClaims(tok.payload).ExpiresAt)
  THEN "token has invalid claims: token is expired"
  ELSE IF t < DecodeClaims(tok.payload).NotBefore
  THEN "token has invalid claims: token is not valid yet"
  ELSE ""

\* The outcome and, when the token verifies, the claims handed to the caller.
ValidateToken(t, tok) ==
  LET err == ParseWithClaims(t, tok) IN
  IF err # ""
  THEN [err |-> IF err = "token is expired" THEN "TOKEN_EXPIRED" ELSE "TOKEN_INVALID",
        claims |-> <<>>]
  ELSE [err |-> "OK", claims |-> DecodeClaims(tok.payload)]

(***************************************************************************)
(* Repository queries and statements.                                      *)
(***************************************************************************)
Min(S) == CHOOSE x \in S : \A y \in S : x <= y

GetByUsername(w, username) ==
  LET ids == {i \in DOMAIN w.users : w.users[i].username = username}
  IN IF ids = {} THEN 0 ELSE Min(ids)

ExistsByUsername(w, username) ==
  \E i \in DOMAIN w.users : w.users[i].username = username

\* A variant of ExistsByEmail that compares with the username column.
ExistsByEmailInUsernames(w, email) ==
  \E i \in DOMAIN w.users : w.users[i].username = email

ExistsByEmail(w, email) ==
  \E i \in DOMAIN w.users : w.users[i].email = email

\* A variant of GetByTokenHash whose WHERE clause lost the token_hash test.
GetAnyLiveToken(w, tokenHash) ==
  LET ids == {i \in DOMAIN w.refreshTokens :
                /\ ~w.refreshTokens[i].deleted
                /\ w.refreshTokens[i].isUsed = FALSE
                /\ w.refreshTokens[i].expiresAt > w.now}
  IN IF ids = {} THEN 0 ELSE Min(ids)

GetByTokenHash(w, tokenHash) ==
  LET ids == {i \in DOMAIN w.refreshTokens :
                /\ ~w.refreshTokens[i].deleted
                /\ w.refreshTokens[i].tokenHash = tokenHash
                /\ w.refreshTokens[i].isUsed = FALSE
                /\ w.refreshTokens[i].expiresAt > w.now}
  IN IF ids = {} THEN 0 ELSE Min(ids)

\* A variant of the sessions query whose WHERE clause lost the
\* refresh_token_id test.
SessionByNothing(w, tokenID) ==
  LET ixs == {i \in DOMAIN w.sessions : w.sessions[i].revoked = FALSE}
  IN IF ixs = {} THEN 0 ELSE Min(ixs)

\* sessionRepository.GetByRefreshTokenHash, second query.
SessionByRefreshTokenID(w, tokenID) ==
  LET ixs == {i \in DOMAIN w.sessions :
                /\ w.sessions[i].refreshTokenID = tokenID
                /\ w.sessions[i].revoked = FALSE}
  IN IF ixs = {} THEN 0 ELSE Min(ixs)

\* UpdateRefreshToken, first query: the session by session_id, revoked or not.
SessionIndex(w, id) ==
  LET ixs == {i \in DOMAIN w.sessions : w.sessions[i].sessionID = id}
  IN IF ixs = {} THEN 0 ELSE Min(ixs)

GetByID(w, id) ==
  LET ixs == {i \in DOMAIN w.sessions :
                w.sessions[i].sessionID = id /\ w.sessions[i].revoked = FALSE}
  IN IF ixs = {} THEN 0 ELSE Min(ixs)

\* UPDATE sessions SET revoked = true WHERE session_id = id.  The DSN sets no
\* clientFoundRows, so RowsAffected counts the rows the statement changed.
RevokeRowsAffected(w, id) ==
  Cardinality({i \in DOMAIN w.sessions :
                 w.sessions[i].sessionID = id /\ w.sessions[i].revoked = FALSE})

\* A variant of Revoke that revokes every session of the session's owner.
RevokeOwner(w, id) ==
  [i \in DOMAIN w.sessions |->
     IF \E j \in DOMAIN w.sessions :
          w.sessions[j].sessionID = id /\ w.sessions[j].userID = w.sessions[i].userID
     THEN [w.sessions[i] EXCEPT !.revoked = TRUE] ELSE w.sessions[i]]

Revoke(w, id) ==
  [i \in DOMAIN w.sessions |->
     IF w.sessions[i].sessionID = id
     THEN [w.sessions[i] EXCEPT !.revoked = TRUE] ELSE w.sessions[i]]

\* A variant of RevokeByUser whose UPDATE lost its WHERE clause.
RevokeEveryUser(w, userID) ==
  [i \in DOMAIN w.sessions |-> [w.sessions[i] EXCEPT !.revoked = TRUE]]

RevokeByUser(w, userID) ==
  [i \in DOMAIN w.sessions |->
     IF w.sessions[i].userID = userID
     THEN [w.sessions[i] EXCEPT !.revoked = TRUE] ELSE w.sessions[i]]

\* A variant of UpdateRefreshToken's writes that only inserts the new token:
\* the old token stays unused and the session keeps pointing at it.
UpdateRefreshTokenInsertOnly(w, sessionID, oldTokenID, userID, newHash, expiresAt) ==
  [refreshTokens |->
     Append(w.refreshTokens,
            [userID |-> userID, tokenHash |-> newHash, isUsed |-> FALSE,
             expiresAt |-> expiresAt, deleted |-> FALSE]),
   sessions |-> w.sessions]

\* A variant of UpdateRefreshToken's writes that opens a new session row for
\* the new token and revokes the old row, instead of repointing it.
UpdateRefreshTokenNewSession(w, sessionID, oldTokenID, userID, newHash, expiresAt) ==
  [refreshTokens |->
     Append([i \in DOMAIN w.refreshTokens |->
               IF i = oldTokenID THEN [w.refreshTokens[i] EXCEPT !.isUsed = TRUE]
               ELSE w.refreshTokens[i]],
            [userID |-> userID, tokenHash |-> newHash, isUsed |-> FALSE,
             expiresAt |-> expiresAt, deleted |-> FALSE]),
   sessions |->
     Append(Revoke(w, sessionID),
            [NewSession(userID, w.nextSessionID)
               EXCEPT !.refreshTokenID = Len(w.refreshTokens) + 1])]

\* The writes of UpdateRefreshToken, committed together: the token the
\* session row named is marked used, the new token is inserted, and the
\* session row is pointed at it.  The statements test neither the hash the
\* caller presented nor the revoked flag.
UpdateRefreshTokenWrites(w, sessionID, oldTokenID, userID, newHash, expiresAt) ==
  [refreshTokens |->
     Append([i \in DOMAIN w.refreshTokens |->
               IF i = oldTokenID THEN [w.refreshTokens[i] EXCEPT !.isUsed = TRUE]
               ELSE w.refreshTokens[i]],
            [userID |-> userID, tokenHash |-> newHash, isUsed |-> FALSE,
             expiresAt |-> expiresAt, deleted |-> FALSE]),
   sessions |->
     [i \in DOMAIN w.sessions |->
        IF w.sessions[i].sessionID = sessionID
        THEN [w.sessions[i] EXCEPT !.refreshTokenID = Len(w.refreshTokens) + 1]
        ELSE w.sessions[i]]]

\* The statements of the rotation transaction at which the database, or
\* the cancellation of the request's context, can make it fail.
TxFailures == {"none", "markUsed", "create", "updateSession", "commit"}

\* The tables as the transaction sees them when it reaches statement failAt:
\* the statements before it have been executed.
TxWorkingCopy(w, sessionID, oldTokenID, userID, newHash, expiresAt, failAt) ==
  LET marked == [i \in DOMAIN w.refreshTokens |->
                   IF i = oldTokenID THEN [w.refreshTokens[i] EXCEPT !.isUsed = TRUE]
                   ELSE w.refreshTokens[i]]
      created == UpdateRefreshTokenWrites(w, sessionID, oldTokenID, userID,
                                          newHash, expiresAt).refreshTokens
  IN IF failAt = "markUsed"
     THEN [refreshTokens |-> w.refreshTokens, sessions |-> w.sessions]
     ELSE IF failAt = "create"
     THEN [refreshTokens |-> marked, sessions |-> w.sessions]
     ELSE IF failAt = "updateSession"
     THEN [refreshTokens |-> created, sessions |-> w.sessions]
     ELSE UpdateRefreshTokenWrites(w, sessionID, oldTokenID, userID, newHash,
                                   expiresAt)

\* A variant of UpdateRefreshToken that runs its statements outside a
\* transaction: what was written before the failure stays written.
UpdateRefreshTokenAutocommit(w, sessionID, oldTokenID, userID, newHash, expiresAt, failAt) ==
  LET tx == TxWorkingCopy(w, sessionID, oldTokenID, userID, newHash, expiresAt,
                          failAt)
  IN [err |-> IF failAt = "none" THEN "" ELSE "error",
      refreshTokens |-> tx.refreshTokens, sessions |-> tx.sessions]

\* sessionRepository.UpdateRefreshToken after its read of the session row:
\* every failing statement is followed by tx.Rollback, which discards the
\* working copy; tx.Commit publishes it.
UpdateRefreshToken(w, sessionID, oldTokenID, userID, newHash, expiresAt, failAt) ==
  LET tx == TxWorkingCopy(w, sessionID, oldTokenID, userID, newHash, expiresAt,
                          failAt)
  IN IF failAt # "none"
     THEN [err |-> "error", refreshTokens |-> w.refreshTokens,
           sessions |-> w.sessions]
     ELSE [err |-> "", refreshTokens |-> tx.refreshTokens, sessions |-> tx.sessions]

(***************************************************************************)
(* AuthService.Register                                                    *)
(***************************************************************************)
RegisterFrame(username, email, password) ==
  [op |-> "Register", pc |-> "start", username |-> username, email |-> email,
   password |-> password]

RegisterStep(w, f) ==
  IF f.pc = "start" THEN
    IF Len(f.username) < UsernameMinLength \/ Len(f.username) > UsernameMaxLength
       \/ Len(f.password) < PasswordMinLength \/ Len(f.password) > PasswordMaxLength
    THEN Done(w, Returned("Register", "INVALID_PASSWORD", 0, 0, 0, 0))
    ELSE IF ExistsByUsername(w, f.username)
    THEN Done(w, Returned("Register", "USER_ALREADY_EXISTS", 0, 0, 0, 0))
    ELSE Goto(w, [f EXCEPT !.pc = "checkEmail"])
  ELSE IF f.pc = "checkEmail" THEN
    IF ExistsByEmail(w, f.email)
    THEN Done(w, Returned("Register", "USER_ALREADY_EXISTS", 0, 0, 0, 0))
    ELSE Goto(w, [f EXCEPT !.pc = "create"])
  ELSE \* "create": userRepo.Create; username and email carry unique indexes
    IF ExistsByUsername(w, f.username) \/ ExistsByEmail(w, f.email)
    THEN Done(w, Returned("Register", "INTERNAL", 0, 0, 0, 0))
    ELSE Done([w EXCEPT !.users = Append(@, NewUser(f.username, f.email,
                                                    hashPassword(f.password)))],
              Returned("Register", "OK", 0, 0, Len(w.users) + 1, 0))

(***************************************************************************)
(* AuthService.Login                                                       *)
(***************************************************************************)
LoginFrame(username, password) ==
  [op |-> "Login", pc |-> "start", username |-> username, password |-> password,
   userID |-> 0, sessionID |-> 0, access |-> 0, secret |-> 0, expiresAt |-> 0,
   tokenID |-> 0, failAt |-> "none"]

\* The ways sessionRepo.Create fails in Login: not at all, with a database
\* error, or because the request's context is cancelled or past its deadline.
LoginFailures == {"none", "createSession", "cancel"}

\* A Login whose sessionRepo.Create fails the way failAt says.
LoginFailingFrame(username, password, failAt) ==
  [LoginFrame(username, password) EXCEPT !.failAt = failAt]

\* refreshTokenRepo.Delete under the request's context: the row is removed,
\* unless the context is done, when the statement is not run and the error
\* is returned.
Delete(w, id, failAt) ==
  IF failAt = "cancel"
  THEN w.refreshTokens
  ELSE [i \in DOMAIN w.refreshTokens |->
          IF i = id THEN [w.refreshTokens[i] EXCEPT !.deleted = TRUE]
          ELSE w.refreshTokens[i]]

LoginStep(w, f) ==
  IF f.pc = "start" THEN
    LET uid == GetByUsername(w, f.username) IN
    IF uid = 0
    THEN Done(w, Returned("Login", "INVALID_CREDENTIALS", 0, 0, 0, 0))
    ELSE IF ~IsActive(w.users[uid])
    THEN Done(w, Returned("Login", "INVALID_CREDENTIALS", 0, 0, uid, 0))
    ELSE IF ~checkPassword(f.password, w.users[uid].password)
    THEN Done(w, Returned("Login", "INVALID_CREDENTIALS", 0, 0, uid, 0))
    ELSE Goto([w EXCEPT !.nextSecret = @ + 1, !.nextSessionID = @ + 1],
              [f EXCEPT !.pc = "createToken", !.userID = uid,
                        !.sessionID = w.nextSessionID,
                        !.access = GenerateAccessToken(w.now, w.nextSessionID, uid,
                                      w.users[uid].username, w.users[uid].role),
                        !.secret = w.nextSecret,
                        !.expiresAt = w.now + RefreshTTL])
  ELSE IF f.pc = "createToken" THEN
    Goto([w EXCEPT !.refreshTokens =
             Append(@, NewRefreshToken(f.userID, f.secret, f.expiresAt))],
         [f EXCEPT !.pc = "createSession", !.tokenID = Len(w.refreshTokens) + 1])
  ELSE IF f.failAt # "none" THEN
    \* "createSession" fails: _ = s.refreshTokenRepo.Delete(ctx, id)
    Done([w EXCEPT !.refreshTokens = Delete(w, f.tokenID, f.failAt)],
         Returned("Login", "INTERNAL", 0, 0, f.userID, 0))
  ELSE \* "createSession"
    Done([w EXCEPT
            \* sessionRepo.Create: created_at is autoCreateTime
            !.sessions = Append(@, [NewSession(f.userID, f.sessionID)
                                      EXCEPT !.refreshTokenID = f.tokenID,
                                             !.createdAt = w.now]),
            !.issued = Append(@, [access |-> f.access, refresh |-> f.secret,
                                  sessionID |-> f.sessionID, userID |-> f.userID,
                                  by |-> "Login", forced |-> FALSE])],
         Returned("Login", "OK", f.sessionID, f.secret, f.userID,
                  Len(w.issued) + 1))

(***************************************************************************)
(* AuthService.Refresh                                                     *)
(***************************************************************************)
\* The secret is the one the session's current refresh-token row stores.
IsCurrentSecret(w, sessionID, secret) ==
  \E i \in DOMAIN w.sessions :
    /\ w.sessions[i].sessionID = sessionID
    /\ w.sessions[i].refreshTokenID \in DOMAIN w.refreshTokens
    /\ w.refreshTokens[w.sessions[i].refreshTokenID].tokenHash = HashRefreshToken(secret)

RefreshFrame(sessionID, refreshToken) ==
  [op |-> "Refresh", pc |-> "start", sid |-> sessionID, secret |-> refreshToken,
   tokenID |-> 0, userID |-> 0, out |-> "none", access |-> 0, newSecret |-> 0,
   expiresAt |-> 0, oldTokenID |-> 0, failAt |-> "none"]

\* A Refresh whose rotation transaction fails at statement failAt.
RefreshFailingFrame(sessionID, refreshToken, failAt) ==
  [RefreshFrame(sessionID, refreshToken) EXCEPT !.failAt = failAt]

RefreshStep(w, f) ==
  IF f.pc = "start" THEN
    \* GetByRefreshTokenHash, first query: the unused, unexpired token row
    LET tid == GetByTokenHash(w, HashRefreshToken(f.secret))
    IN IF tid = 0
       THEN Done(w, Returned("Refresh", "TOKEN_INVALID", f.sid, f.secret, 0, 0))
       ELSE Goto(w, [f EXCEPT !.pc = "getSession", !.tokenID = tid])
  ELSE IF f.pc = "getSession" THEN
    \* GetByRefreshTokenHash, second query, then the session id check
    LET ix == SessionByRefreshTokenID(w, f.tokenID) IN
    IF ix = 0
    THEN Done(w, Returned("Refresh", "TOKEN_INVALID", f.sid, f.secret, 0, 0))
    ELSE IF w.sessions[ix].sessionID # f.sid
    THEN Done(w, Returned("Refresh", "TOKEN_INVALID", f.sid, f.secret, 0, 0))
    ELSE IF ~IsValid(w.sessions[ix])
    THEN Goto(w, [f EXCEPT !.pc = "revoke", !.out = "TOKEN_EXPIRED"])
    ELSE Goto(w, [f EXCEPT !.pc = "getUser", !.userID = w.sessions[ix].userID])
  ELSE IF f.pc = "getUser" THEN
    IF f.userID \notin DOMAIN w.users
    THEN Done(w, Returned("Refresh", "USER_NOT_FOUND", f.sid, f.secret, f.userID, 0))
    ELSE IF ~IsActive(w.users[f.userID])
    THEN Goto(w, [f EXCEPT !.pc = "revoke", !.out = "INVALID_CREDENTIALS"])
    ELSE Goto([w EXCEPT !.nextSecret = @ + 1],
              [f EXCEPT !.pc = "txRead",
                        !.access = GenerateAccessToken(w.now, f.sid, f.userID,
                                      w.users[f.userID].username,
                                      w.users[f.userID].role),
                        !.newSecret = w.nextSecret,
                        !.expiresAt = w.now + RefreshTTL])
  ELSE IF f.pc = "revoke" THEN
    \* _ = s.sessionRepo.Revoke(ctx, sessionID, now): the error is dropped
    Done([w EXCEPT !.sessions = Revoke(w, f.sid)],
         Returned("Refresh", f.out, f.sid, f.secret, f.userID, 0))
  ELSE IF f.pc = "txRead" THEN
    \* UpdateRefreshToken, the snapshot read of the session row
    LET ix == SessionIndex(w, f.sid) IN
    IF ix = 0
    THEN Done(w, Returned("Refresh", "INTERNAL", f.sid, f.secret, f.userID, 0))
    ELSE Goto(w, [f EXCEPT !.pc = "txCommit",
                           !.oldTokenID = w.sessions[ix].refreshTokenID])
  ELSE \* "txCommit": UpdateRefreshToken, the writes and the commit
    LET tx == UpdateRefreshToken(w, f.sid, f.oldTokenID, f.userID,
                                 HashRefreshToken(f.newSecret), f.expiresAt,
                                 f.failAt)
    IN
    IF tx.err # ""
    THEN \* "failed to rotate refresh token"
         Done([w EXCEPT !.refreshTokens = tx.refreshTokens,
                        !.sessions = tx.sessions],
              Returned("Refresh", "INTERNAL", f.sid, f.secret, f.userID, 0))
    ELSE
    Done([w EXCEPT
            !.refreshTokens = tx.refreshTokens,
            !.sessions = tx.sessions,
            !.issued = Append(@, [access |-> f.access, refresh |-> f.newSecret,
                                  sessionID |-> f.sid, userID |-> f.userID,
                                  by |-> "Refresh", forced |-> FALSE]),
            !.wins = [@ EXCEPT ![f.secret] = @ + 1]],
         Returned("Refresh", "OK", f.sid, f.secret, f.userID,
                  Len(w.issued) + 1))

(***************************************************************************)
(* AuthService.Logout and LogoutAll                                        *)
(***************************************************************************)
LogoutFrame(sessionID) == [op |-> "Logout", pc |-> "start", sid |-> sessionID]

LogoutStep(w, f) ==
  IF f.sid = 0
  THEN Done(w, Returned("Logout", "SESSION_NOT_FOUND", f.sid, 0, 0, 0))
  ELSE IF RevokeRowsAffected(w, f.sid) = 0
  THEN Done([w EXCEPT !.sessions = Revoke(w, f.sid)],
            Returned("Logout", "INTERNAL", f.sid, 0, 0, 0))
  ELSE Done([w EXCEPT !.sessions = Revoke(w, f.sid),
                      !.loggedOut = @ \cup {f.sid}],
            Returned("Logout", "OK", f.sid, 0, 0, 0))

LogoutAllFrame(userID) == [op |-> "LogoutAll", pc |-> "start", userID |-> userID]

LogoutAllStep(w, f) ==
  IF f.userID = 0
  THEN Done(w, Returned("LogoutAll", "USER_NOT_FOUND", 0, 0, f.userID, 0))
  ELSE Done([w EXCEPT !.sessions = RevokeByUser(w, f.userID)],
            Returned("LogoutAll", "OK", 0, 0, f.userID, 0))

(***************************************************************************)
(* AdminHandler: each handler reads the principal with userRepo.GetByID,   *)
(* changes the copy and writes the whole row back with userRepo.Update.    *)
(* The caller is taken to have passed the permission check.                *)
(***************************************************************************)
\* A variant of IncrementTokenVersion that also suspends the principal.
IncrementAndSuspend(u) == [u EXCEPT !.tokenVersion = @ + 1, !.status = "inactive"]

IncrementTokenVersion(u) == [u EXCEPT !.tokenVersion = @ + 1]

MergeInto(u, targetUserID) ==
  [u EXCEPT !.status = "merged", !.mergedInto = targetUserID]

\* userRepo.Update (Save): the whole row is written.
Update(w, userID, user) == [w.users EXCEPT ![userID] = user]

ForceLogoutUserFrame(userID) ==
  [op |-> "ForceLogoutUser", pc |-> "start", target |-> userID, user |-> 0]

\* A completed ForceLogoutUser marks the pairs already handed out for the
\* principal, so that later states can tell them from pairs minted afterwards.
ForceLogoutUserStep(w, f) ==
  IF f.pc = "start" THEN
    IF f.target \notin DOMAIN w.users
    THEN Done(w, Returned("ForceLogoutUser", "NOT_FOUND", 0, 0, f.target, 0))
    ELSE Goto(w, [f EXCEPT !.pc = "update",
                           !.user = IncrementTokenVersion(w.users[f.target])])
  ELSE
    Done([w EXCEPT
            !.users = Update(w, f.target, f.user),
            !.issued = [i \in DOMAIN w.issued |->
                          IF w.issued[i].userID = f.target
                          THEN [w.issued[i] EXCEPT !.forced = TRUE]
                          ELSE w.issued[i]]],
         Returned("ForceLogoutUser", "OK", 0, 0, f.target, 0))

UpdateUserStatusFrame(userID, status) ==
  [op |-> "UpdateUserStatus", pc |-> "start", target |-> userID,
   status |-> status, user |-> 0]

UpdateUserStatusStep(w, f) ==
  IF f.pc = "start" THEN
    IF f.target \notin DOMAIN w.users
    THEN Done(w, Returned("UpdateUserStatus", "NOT_FOUND", 0, 0, f.target, 0))
    ELSE Goto(w, [f EXCEPT !.pc = "update",
                           !.user = [w.users[f.target] EXCEPT !.status = f.status]])
  ELSE
    Done([w EXCEPT !.users = Update(w, f.target, f.user)],
         Returned("UpdateUserStatus", "OK", 0, 0, f.target, 0))

\* AdminHandler.UpdateUserRole: the row is loaded, its role is set, and the
\* whole row is written back.
UpdateUserRoleFrame(userID, role) ==
  [op |-> "UpdateUserRole", pc |-> "start", target |-> userID,
   role |-> role, user |-> 0]

UpdateUserRoleStep(w, f) ==
  IF f.pc = "start" THEN
    IF f.target \notin DOMAIN w.users
    THEN Done(w, Returned("UpdateUserRole", "NOT_FOUND", 0, 0, f.target, 0))
    ELSE Goto(w, [f EXCEPT !.pc = "update",
                           !.user = [w.users[f.target] EXCEPT !.role = f.role]])
  ELSE
    Done([w EXCEPT !.users = Update(w, f.target, f.user)],
         Returned("UpdateUserRole", "OK", 0, 0, f.target, 0))

\* The merge of one principal into another: User.MergeInto on the loaded row,
\* written back like every other change of a principal.
MergeUserFrame(userID, targetUserID) ==
  [op |-> "MergeUser", pc |-> "start", target |-> userID,
   into |-> targetUserID, user |-> 0]

MergeUserStep(w, f) ==
  IF f.pc = "start" THEN
    IF f.target \notin DOMAIN w.users
    THEN Done(w, Returned("MergeUser", "NOT_FOUND", 0, 0, f.target, 0))
    ELSE Goto(w, [f EXCEPT !.pc = "update",
                           !.user = MergeInto(w.users[f.target], f.into)])
  ELSE
    Done([w EXCEPT !.users = Update(w, f.target, f.user)],
         Returned("MergeUser", "OK", 0, 0, f.target, 0))

(***************************************************************************)
(* AuthMiddleware.RequireAuth with the session repository wired in.        *)
(***************************************************************************)
\* GetByID answers (nil, nil) for an unknown or revoked session, and
\* ensureSessionActive then calls IsValid on the nil session.
ensureSessionActive(w, claims) ==
  IF claims.SessionID = 0 THEN "OK"
  ELSE LET ix == GetByID(w, claims.SessionID) IN
       IF ix = 0 THEN "PANIC"
       ELSE IF ~IsValid(w.sessions[ix]) THEN "SESSION_REVOKED"
       ELSE "OK"

RequireAuthOutcome(w, tok) ==
  IF ValidateToken(w.now, tok).err # "OK" THEN ValidateToken(w.now, tok).err
  ELSE IF ensureSessionActive(w, ValidateToken(w.now, tok).claims) # "OK"
  THEN ensureSessionActive(w, ValidateToken(w.now, tok).claims)
  ELSE "ACCEPTED"

\* The bearer token presented is pair i's access token, signed with key sig.
RequireAuthFrame(i, sig) == [op |-> "RequireAuth", pc |-> "start", ix |-> i, sig |-> sig]

RequireAuthStep(w, f) ==
  LET tok == [w.issued[f.ix].access EXCEPT
                !.sig = Sign(f.sig, w.issued[f.ix].access.header,
                             w.issued[f.ix].access.payload)] IN
  Done(w, Returned("RequireAuth", RequireAuthOutcome(w, tok),
                   w.issued[f.ix].sessionID, 0, w.issued[f.ix].userID, f.ix))

(***************************************************************************)
(* Requests as steps, and as whole calls.                                  *)
(***************************************************************************)
Step(w, f) ==
  CASE f.op = "Register" -> RegisterStep(w, f)
    [] f.op = "Login" -> LoginStep(w, f)
    [] f.op = "Refresh" -> RefreshStep(w, f)
    [] f.op = "Logout" -> LogoutStep(w, f)
    [] f.op = "LogoutAll" -> LogoutAllStep(w, f)
    [] f.op = "ForceLogoutUser" -> ForceLogoutUserStep(w, f)
    [] f.op = "UpdateUserStatus" -> UpdateUserStatusStep(w, f)
    [] f.op = "UpdateUserRole" -> UpdateUserRoleStep(w, f)
    [] f.op = "MergeUser" -> MergeUserStep(w, f)
    [] f.op = "RequireAuth" -> RequireAuthStep(w, f)

RECURSIVE Run(_, _)
Run(w, f) == IF f = Idle THEN w ELSE LET r == Step(w, f) IN Run(r.w, r.f)

IsAdmin(f) ==
  f.op \in {"ForceLogoutUser", "UpdateUserStatus", "UpdateUserRole", "MergeUser"}

\* A whole request, with no other request in between.
Call(f) ==
  /\ \A q \in Procs : proc[q] = Idle
  /\ IsAdmin(f) => adminOps < MaxAdminOps
  /\ LET w == Run(World, f) IN
       /\ w.nextSecret <= MaxSecrets + 1
       /\ Commit(w)
  /\ adminOps' = IF IsAdmin(f) THEN adminOps + 1 ELSE adminOps
  /\ UNCHANGED proc

\* The first statement of a request on worker p.
Start(p, f) ==
  /\ proc[p] = Idle
  /\ IsAdmin(f) => adminOps < MaxAdminOps
  /\ LET r == Step(World, f) IN
       /\ r.w.nextSecret <= MaxSecrets + 1
       /\ Commit(r.w)
       /\ proc' = [proc EXCEPT ![p] = r.f]
  /\ adminOps' = IF IsAdmin(f) THEN adminOps + 1 ELSE adminOps

\* The next statement of the request in flight on worker p.
Continue(p) ==
  /\ proc[p] # Idle
  /\ LET r == Step(World, proc[p]) IN
       /\ r.w.nextSecret <= MaxSecrets + 1
       /\ Commit(r.w)
       /\ proc' = [proc EXCEPT ![p] = r.f]
  /\ UNCHANGED adminOps

Tick ==
  /\ now < MaxTime
  /\ now' = now + 1
  /\ UNCHANGED others
  /\ UNCHANGED <<users, refreshTokens, sessions, nextSecret, nextSessionID,
                 proc, issued, adminOps, wins, loggedOut>>

\* A NULL column, a nil pointer, the zero time.
Null == -1

\* NewMemoryMQ.  msgs holds the Message objects ever created, in order of
\* creation; a channel holds positions in msgs, as the code's channels hold
\* pointers.
NewMemoryMQ == [closed |-> FALSE, subs |-> <<>>, msgs |-> <<>>]

\* NewJWKSValidator, before any key is published at the URL.  purgedAt,
\* everPublished and last record the history of the key set and the last
\* answer of the validator.
NewJWKSValidator ==
  [published |-> {}, cache |-> {}, cacheTime |-> Null,
   purgedAt |-> [k \in {} |-> Null], everPublished |-> {},
   last |-> [kid |-> "", err |-> "none"]]

InitOthers ==
  /\ jwkKeys = {}
  /\ jwks = NewJWKSValidator
  /\ mq = NewMemoryMQ

KnownSecrets == {issued[i].refresh : i \in DOMAIN issued} \cup {0}

KnownSessionIDs == {issued[i].sessionID : i \in DOMAIN issued} \cup {0}

Init ==
  /\ users = <<>>
  /\ refreshTokens = <<>>
  /\ sessions = <<>>
  /\ now = 0
  /\ nextSecret = 1
  /\ nextSessionID = 1
  /\ proc = [p \in Procs |-> Idle]
  /\ issued = <<>>
  /\ adminOps = 0
  /\ wins = [s \in 1..MaxSecrets |-> 0]
  /\ loggedOut = {}
  /\ InitOthers

Register(username, email, password) == Call(RegisterFrame(username, email, password))

Login(username, password) == Call(LoginFrame(username, password))

Refresh(sessionID, refreshToken) == Call(RefreshFrame(sessionID, refreshToken))

Logout(sessionID) == Call(LogoutFrame(sessionID))

LogoutAll(userID) == Call(LogoutAllFrame(userID))

ForceLogoutUser(userID) == Call(ForceLogoutUserFrame(userID))

UpdateUserStatus(userID, status) == Call(UpdateUserStatusFrame(userID, status))

MergeUser(userID, targetUserID) ==
  userID # targetUserID /\ Call(MergeUserFrame(userID, targetUserID))

RequireAuth(i, sig) == Call(RequireAuthFrame(i, sig))

(***************************************************************************)
(* The session lifecycle: whole requests of the authentication service and *)
(* the admin change of a principal's status, one after the other.          *)
(***************************************************************************)
Next ==
  \/ \E r \in RegisterInputs, pw \in RegisterPasswords : Register(r[1], r[2], pw)
  \/ \E u \in Usernames, pw \in LoginPasswords : Login(u, pw)
  \/ \E sid \in KnownSessionIDs, s \in KnownSecrets : Refresh(sid, s)
  \/ \E sid \in KnownSessionIDs : Logout(sid)
  \/ \E uid \in 0..Len(users) : LogoutAll(uid)
  \/ \E uid \in DOMAIN users, st \in StatusInputs : UpdateUserStatus(uid, st)
  \/ Tick

Spec == Init /\ [][Next]_vars

(***************************************************************************)
(* The verification gateway: requests that mint access tokens, the admin   *)
(* and merge operations on principals, and RequireAuth on the tokens.      *)
(***************************************************************************)
NextGateway ==
  \/ \E r \in RegisterInputs, pw \in RegisterPasswords : Register(r[1], r[2], pw)
  \/ \E u \in Usernames, pw \in LoginPasswords : Login(u, pw)
  \/ \E sid \in KnownSessionIDs : Logout(sid)
  \/ \E uid \in DOMAIN users : ForceLogoutUser(uid)
  \/ \E uid \in DOMAIN users, t \in DOMAIN users : MergeUser(uid, t)
  \/ \E i \in DOMAIN issued, sig \in {SecretKey, "forged"} : RequireAuth(i, sig)
  \/ Tick

SpecGateway == Init /\ [][NextGateway]_vars

(***************************************************************************)
(* Concurrent requests: Refresh and Logout run statement by statement on   *)
(* two workers, each statement atomic at the database.                     *)
(***************************************************************************)
BeginRefresh(p, sessionID, refreshToken) == Start(p, RefreshFrame(sessionID, refreshToken))

BeginLogout(p, sessionID) == Start(p, LogoutFrame(sessionID))

NextRace ==
  \/ \E r \in RegisterInputs, pw \in RegisterPasswords : Register(r[1], r[2], pw)
  \/ \E u \in Usernames, pw \in LoginPasswords : Login(u, pw)
  \/ \E p \in Procs, sid \in KnownSessionIDs, s \in KnownSecrets :
        BeginRefresh(p, sid, s)
  \/ \E p \in Procs, sid \in KnownSessionIDs : BeginLogout(p, sid)
  \/ \E p \in Procs : Continue(p)

SpecRace == Init /\ [][NextRace]_vars

(***************************************************************************)
(* Properties.  A property about the outcome of a request is stated over   *)
(* every reachable state: Run(World, frame) is the world the request       *)
(* leaves when it is called in that state, and its field last is what the  *)
(* caller gets back.                                                       *)
(***************************************************************************)
Outcome(f) == Run(World, f).last.out

\* C1: a successful Login adds exactly one session and changes no other; the
\* new session has an id no session had before, is owned by the principal
\* that logged in, is not revoked, has the SessionID returned to the caller,
\* and points at a refresh-token row that stores the hash of the returned
\* refresh secret.
LoginCreatesOneSession ==
  \A u \in Usernames, pw \in LoginPasswords :
    LET w == Run(World, LoginFrame(u, pw)) IN
      w.last.out = "OK" =>
        /\ Len(w.sessions) = Len(sessions) + 1
        /\ \A i \in DOMAIN sessions : w.sessions[i] = sessions[i]
        /\ LET s == w.sessions[Len(w.sessions)] IN
             /\ \A i \in DOMAIN sessions : sessions[i].sessionID # s.sessionID
             /\ s.userID = GetByUsername(World, u)
             /\ s.userID = w.last.uid
             /\ ~s.revoked
             /\ s.sessionID = w.last.sid
             /\ s.refreshTokenID \in DOMAIN w.refreshTokens
             /\ w.refreshTokens[s.refreshTokenID].tokenHash
                  = HashRefreshToken(w.last.secret)

\* C1 witness: a Login has returned a pair, and its session is there, not
\* revoked, pointing at the row that stores the hash of the returned secret.
LoginHasSucceeded ==
  \E i \in DOMAIN issued, j \in DOMAIN sessions :
    /\ issued[i].by = "Login"
    /\ sessions[j].sessionID = issued[i].sessionID
    /\ sessions[j].userID = issued[i].userID
    /\ ~sessions[j].revoked
    /\ refreshTokens[sessions[j].refreshTokenID].tokenHash
         = HashRefreshToken(issued[i].refresh)

\* C2: once a Refresh presenting secret s has succeeded, a Refresh presenting
\* s fails with TOKEN_INVALID, for every session id and in every later state,
\* whatever rotations have happened since.
ConsumedSecretIsDead ==
  \A s \in DOMAIN wins :
    wins[s] >= 1 =>
      \A sid \in KnownSessionIDs : Outcome(RefreshFrame(sid, s)) = "TOKEN_INVALID"

\* C2 witness: two secrets have been rotated away from, so the first was
\* consumed at least one rotation ago.
TwoRotationsDone ==
  \E s, t \in DOMAIN wins :
    /\ s < t /\ wins[s] >= 1 /\ wins[t] >= 1
    /\ \E i, j \in DOMAIN issued :
         /\ issued[i].refresh = s /\ issued[j].refresh = t
         /\ issued[i].sessionID = issued[j].sessionID
         /\ Outcome(RefreshFrame(issued[i].sessionID, s)) = "TOKEN_INVALID"

\* C3: of the Refresh calls that present one secret, at most one returns a
\* token pair, however their statements interleave.
AtMostOneRefreshWins == \A s \in DOMAIN wins : wins[s] <= 1

\* The secrets no Login and no Refresh has handed out.
NeverIssued == (0..(MaxSecrets + 1)) \ {issued[i].refresh : i \in DOMAIN issued}

\* C4: a Refresh that presents a secret never issued fails with TOKEN_INVALID
\* for every session id, and leaves every session and refresh-token row as
\* it was.
UnknownSecretIsInvalid ==
  \A sid \in KnownSessionIDs, s \in NeverIssued :
    LET w == Run(World, RefreshFrame(sid, s)) IN
      /\ w.last.out = "TOKEN_INVALID"
      /\ w.sessions = sessions
      /\ w.refreshTokens = refreshTokens

\* C4 witness: a session is live (not revoked, its current token unused and
\* unexpired) and a Refresh on it with a secret never issued is turned away.
UnknownSecretOnLiveSession ==
  \E j \in DOMAIN sessions :
    /\ ~sessions[j].revoked
    /\ GetByTokenHash(World, refreshTokens[sessions[j].refreshTokenID].tokenHash)
         = sessions[j].refreshTokenID
    /\ Outcome(RefreshFrame(sessions[j].sessionID, 0)) = "TOKEN_INVALID"

\* C5: once Logout(sid) has returned without error, a Refresh that presents
\* the current secret of sid fails with TOKEN_INVALID or TOKEN_EXPIRED; and a
\* successful Logout(sid) leaves every Refresh that would succeed on another
\* non-revoked session of the same principal, with that session's current
\* secret, succeeding.
LogoutEndsOnlyItsSession ==
  /\ \A sid \in loggedOut, s \in KnownSecrets :
       IsCurrentSecret(World, sid, s) =>
         Outcome(RefreshFrame(sid, s)) \in {"TOKEN_INVALID", "TOKEN_EXPIRED"}
  /\ \A i \in DOMAIN sessions :
       LET w == Run(World, LogoutFrame(sessions[i].sessionID)) IN
         w.last.out = "OK" =>
           \A j \in DOMAIN sessions, s \in KnownSecrets :
             ( /\ j # i
               /\ sessions[j].userID = sessions[i].userID
               /\ ~sessions[j].revoked
               /\ IsCurrentSecret(World, sessions[j].sessionID, s)
               /\ Outcome(RefreshFrame(sessions[j].sessionID, s)) = "OK" )
             => Run(w, RefreshFrame(sessions[j].sessionID, s)).last.out = "OK"

\* C5 witness: Logout has returned for one session, Refresh with its current
\* secret is turned away, and Refresh on another session of the same
\* principal succeeds.
SiblingUsableAfterLogout ==
  \E i, j \in DOMAIN sessions, s, t \in KnownSecrets :
    /\ i # j
    /\ sessions[i].userID = sessions[j].userID
    /\ sessions[i].sessionID \in loggedOut
    /\ IsCurrentSecret(World, sessions[i].sessionID, s)
    /\ Outcome(RefreshFrame(sessions[i].sessionID, s)) = "TOKEN_INVALID"
    /\ ~sessions[j].revoked
    /\ IsCurrentSecret(World, sessions[j].sessionID, t)
    /\ Outcome(RefreshFrame(sessions[j].sessionID, t)) = "OK"

\* C6: Logout on a session that is already revoked returns no error and
\* leaves the store as it was.
LogoutIsIdempotent ==
  \A i \in DOMAIN sessions :
    sessions[i].revoked =>
      LET w == Run(World, LogoutFrame(sessions[i].sessionID)) IN
        /\ w.last.out = "OK"
        /\ w.sessions = sessions
        /\ w.refreshTokens = refreshTokens
        /\ w.users = users

\* C7: LogoutAll(p) returns without error, leaves every session of p
\* revoked, and changes the revoked flag of no session of another principal.
LogoutAllRevokesOnlyOwn ==
  \A uid \in DOMAIN users :
    LET w == Run(World, LogoutAllFrame(uid)) IN
      /\ w.last.out = "OK"
      /\ DOMAIN w.sessions = DOMAIN sessions
      /\ \A i \in DOMAIN sessions :
           IF sessions[i].userID = uid
           THEN w.sessions[i].revoked
           ELSE w.sessions[i].revoked = sessions[i].revoked

\* C7 witness: two sessions of one principal are revoked though no Logout
\* returned for either and no principal was ever changed by an admin, so a
\* LogoutAll revoked them; a session of another principal is not revoked.
LogoutAllHasActed ==
  \E i, j, k \in DOMAIN sessions :
    /\ i # j
    /\ sessions[i].userID = sessions[j].userID
    /\ sessions[i].revoked /\ sessions[j].revoked
    /\ sessions[i].sessionID \notin loggedOut
    /\ sessions[j].sessionID \notin loggedOut
    /\ adminOps = 0
    /\ sessions[k].userID # sessions[i].userID
    /\ ~sessions[k].revoked

\* C8: RequireAuth turns away every access token that was minted for a
\* principal before a ForceLogoutUser of that principal completed.
ForcedTokensRejected ==
  \A i \in DOMAIN issued :
    issued[i].forced => RequireAuthOutcome(World, issued[i].access) # "ACCEPTED"

\* C9: RequireAuth accepts no access token of a principal whose status is
\* deleted or merged.
MergedPrincipalRejected ==
  \A i \in DOMAIN issued :
    users[issued[i].userID].status \in {"deleted", "merged"} =>
      RequireAuthOutcome(World, issued[i].access) # "ACCEPTED"

\* C10: Login fails with INVALID_CREDENTIALS when the username is unknown,
\* when the principal is not active and when the password does not match,
\* and in each case leaves the sessions and the refresh-token rows as they
\* were.
LoginFailuresAlike ==
  \A u \in Usernames, pw \in LoginPasswords :
    LET uid == GetByUsername(World, u)
        w == Run(World, LoginFrame(u, pw))
    IN ( \/ uid = 0
         \/ users[uid].status # "active"
         \/ users[uid].password # hashPassword(pw) )
       => /\ w.last.out = "INVALID_CREDENTIALS"
          /\ w.sessions = sessions
          /\ w.refreshTokens = refreshTokens

\* C10 witness: one username is unknown, the other belongs to a principal
\* that is not active, and Login is turned away for the unknown name, for
\* the inactive principal with its password, and with a wrong password.
LoginFailureCases ==
  \E u, v \in Usernames :
    /\ GetByUsername(World, u) = 0
    /\ GetByUsername(World, v) # 0
    /\ users[GetByUsername(World, v)].status = "inactive"
    /\ Outcome(LoginFrame(u, "Secret123!")) = "INVALID_CREDENTIALS"
    /\ Outcome(LoginFrame(v, "Secret123!")) = "INVALID_CREDENTIALS"
    /\ Outcome(LoginFrame(v, "WrongPass1")) = "INVALID_CREDENTIALS"

Roles == {"admin", "user", "guest"}

TokenSessionIDs == 0..2

TokenUserIDs == 1..2

InitToken ==
  /\ users = <<>>
  /\ refreshTokens = <<>>
  /\ sessions = <<>>
  /\ now = 0
  /\ nextSecret = 1
  /\ nextSessionID = 1
  /\ issued = <<>>
  /\ adminOps = 0
  /\ wins = [s \in 1..MaxSecrets |-> 0]
  /\ loggedOut = {}
  /\ InitOthers
  /\ \E sid \in TokenSessionIDs, uid \in TokenUserIDs, u \in Usernames, r \in Roles :
       proc = [p \in Procs |->
                 IF p = "w1"
                 THEN [op |-> "GenerateAccessToken", sessionID |-> sid,
                       userID |-> uid, username |-> u, role |-> r,
                       token |-> <<>>, at |-> 0, result |-> <<>>]
                 ELSE Idle]

\* tokenService.GenerateAccessToken(sessionID, userID, username, role)
MintToken(p) ==
  /\ proc[p].op = "GenerateAccessToken"
  /\ proc' = [proc EXCEPT ![p] =
                [@ EXCEPT !.op = "ValidateToken",
                          !.token = GenerateAccessToken(now, proc[p].sessionID,
                                       proc[p].userID, proc[p].username,
                                       proc[p].role)]]
  /\ UNCHANGED others
  /\ UNCHANGED <<users, refreshTokens, sessions, now, nextSecret, nextSessionID,
                 issued, adminOps, wins, loggedOut>>

\* tokenService.ValidateToken(pair.AccessToken)
CheckToken(p) ==
  /\ proc[p].op = "ValidateToken"
  /\ proc' = [proc EXCEPT ![p] =
                [@ EXCEPT !.op = "validated", !.at = now,
                          !.result = ValidateToken(now, proc[p].token)]]
  /\ UNCHANGED others
  /\ UNCHANGED <<users, refreshTokens, sessions, now, nextSecret, nextSessionID,
                 issued, adminOps, wins, loggedOut>>

NextToken ==
  \/ \E p \in Procs : MintToken(p)
  \/ \E p \in Procs : CheckToken(p)
  \/ Tick

SpecToken == InitToken /\ [][NextToken]_vars

\* C12: ValidateToken on a token that GenerateAccessToken produced, called
\* before the token's expiry, returns no error and claims with the
\* session id, the principal id and the role that were passed in.
TokenRoundTrip ==
  \A p \in Procs :
    (proc[p].op = "validated" /\ proc[p].at < proc[p].token.payload.exp) =>
      /\ proc[p].result.err = "OK"
      /\ proc[p].result.claims.SessionID = proc[p].sessionID
      /\ proc[p].result.claims.UserID = proc[p].userID
      /\ proc[p].result.claims.Role = proc[p].role

\* C12 witness: a token for an admin was generated, the clock moved, and the
\* token was validated before its expiry time.
TokenValidatedBeforeExpiry ==
  \E p \in Procs :
    /\ proc[p].op = "validated"
    /\ proc[p].role = "admin"
    /\ proc[p].token.payload.iat < proc[p].at
    /\ proc[p].at < proc[p].token.payload.exp
    /\ proc[p].result.err = "OK"

(***************************************************************************)
(* The refresh_token_hash-based session store (SessionRepository): its     *)
(* rows keep the hash, its expiry and revoked_at; Null is a NULL column.   *)
(***************************************************************************)
\* SessionRepository.Create, with a session built for principal userID.
HashStoreCreate(userID) ==
  /\ nextSecret <= MaxSecrets
  /\ sessions' = Append(sessions,
                   [id |-> nextSessionID, userID |-> userID,
                    refreshTokenHash |-> HashRefreshToken(nextSecret),
                    refreshTokenExpiresAt |-> now + RefreshTTL,
                    revokedAt |-> Null])
  /\ nextSecret' = nextSecret + 1
  /\ nextSessionID' = nextSessionID + 1
  /\ UNCHANGED others
  /\ UNCHANGED <<users, refreshTokens, now, proc, issued, adminOps, wins, loggedOut>>

\* SessionRepository.UpdateRefreshToken: one UPDATE by id, which also sets
\* revoked_at to NULL.
HashStoreUpdateRefreshToken(id) ==
  /\ nextSecret <= MaxSecrets
  /\ \E i \in DOMAIN sessions : sessions[i].id = id
  /\ sessions' = [i \in DOMAIN sessions |->
                    IF sessions[i].id = id
                    THEN [sessions[i] EXCEPT
                            !.refreshTokenHash = HashRefreshToken(nextSecret),
                            !.refreshTokenExpiresAt = now + RefreshTTL,
                            !.revokedAt = Null]
                    ELSE sessions[i]]
  /\ nextSecret' = nextSecret + 1
  /\ UNCHANGED others
  /\ UNCHANGED <<users, refreshTokens, now, nextSessionID, proc, issued, adminOps,
                 wins, loggedOut>>

\* SessionRepository.Revoke
HashStoreRevoke(id) ==
  /\ \E i \in DOMAIN sessions : sessions[i].id = id
  /\ sessions' = [i \in DOMAIN sessions |->
                    IF sessions[i].id = id
                    THEN [sessions[i] EXCEPT !.revokedAt = now] ELSE sessions[i]]
  /\ UNCHANGED others
  /\ UNCHANGED <<users, refreshTokens, now, nextSecret, nextSessionID, proc, issued,
                 adminOps, wins, loggedOut>>

\* SessionRepository.RevokeByUser
HashStoreRevokeByUser(userID) ==
  /\ sessions' = [i \in DOMAIN sessions |->
                    IF sessions[i].userID = userID /\ sessions[i].revokedAt = Null
                    THEN [sessions[i] EXCEPT !.revokedAt = now] ELSE sessions[i]]
  /\ UNCHANGED others
  /\ UNCHANGED <<users, refreshTokens, now, nextSecret, nextSessionID, proc, issued,
                 adminOps, wins, loggedOut>>

NextHashStore ==
  \/ \E uid \in TokenUserIDs : HashStoreCreate(uid)
  \/ \E id \in 1..MaxSecrets : HashStoreUpdateRefreshToken(id)
  \/ \E id \in 1..MaxSecrets : HashStoreRevoke(id)
  \/ \E uid \in TokenUserIDs : HashStoreRevokeByUser(uid)
  \/ Tick

SpecHashStore == Init /\ [][NextHashStore]_vars

\* C13: in the refresh_token_hash-based store no step makes a revoked
\* session non-revoked again.
HashStoreRevokedIsTerminal ==
  [][\A i \in DOMAIN sessions :
       sessions[i].revokedAt # Null =>
         (i \in DOMAIN sessions' /\ sessions'[i].revokedAt # Null)]_vars

\* C13, for the refresh_token_id-based store and the lifecycle service on
\* top of it: no step makes a revoked session non-revoked again.
RevokedIsTerminal ==
  [][\A i \in DOMAIN sessions :
       sessions[i].revoked => (i \in DOMAIN sessions' /\ sessions'[i].revoked)]_vars

\* The secrets a Refresh called now would accept for session sessionID.
AcceptedSecrets(sessionID) ==
  {s \in 0..nextSecret : Outcome(RefreshFrame(sessionID, s)) = "OK"}

\* The unused, unexpired refresh-token rows a session row with this id names.
LiveLinkedTokens(sessionID) ==
  {t \in DOMAIN refreshTokens :
     /\ ~refreshTokens[t].isUsed
     /\ refreshTokens[t].expiresAt > now
     /\ \E i \in DOMAIN sessions :
          sessions[i].sessionID = sessionID /\ sessions[i].refreshTokenID = t}

\* C14: in every state, also between the statements of concurrent Refresh
\* calls, a session has at most one unused, unexpired refresh-token row
\* linked to it and at most one secret that a Refresh would accept for it.
SingleActiveSecret ==
  \A i \in DOMAIN sessions :
    /\ Cardinality(LiveLinkedTokens(sessions[i].sessionID)) <= 1
    /\ Cardinality(AcceptedSecrets(sessions[i].sessionID)) <= 1

\* C14 witness: two Refresh calls that presented the same secret have both
\* rotated the session, and exactly one secret is accepted for it.
OneSecretAfterDoubleRotation ==
  \E i \in DOMAIN sessions, s \in DOMAIN wins :
    /\ wins[s] = 2
    /\ \E k \in DOMAIN issued :
         issued[k].refresh = s /\ issued[k].sessionID = sessions[i].sessionID
    /\ Cardinality(AcceptedSecrets(sessions[i].sessionID)) = 1

\* C15: no refresh-token row ever holds a generated secret itself; a row
\* written for a secret holds its digest, which differs from every secret.
SecretsStoredHashed ==
  /\ \A t \in DOMAIN refreshTokens :
       refreshTokens[t].tokenHash \notin 1..(nextSecret - 1)
  /\ \A i \in DOMAIN issued :
       \E t \in DOMAIN refreshTokens :
         /\ refreshTokens[t].tokenHash = HashRefreshToken(issued[i].refresh)
         /\ refreshTokens[t].tokenHash # issued[i].refresh

\* C15 witness: a Login and a Refresh have each persisted a row for the
\* secret they handed out.
LoginAndRefreshPersisted ==
  /\ Len(refreshTokens) >= 2
  /\ \E i, j \in DOMAIN issued : issued[i].by = "Login" /\ issued[j].by = "Refresh"

\* C16: when a Refresh presents, for its own session, a secret that a
\* successful rotation already consumed, it fails with TOKEN_INVALID, the
\* session is revoked when it returns, and no secret is accepted for that
\* session afterwards.
ReuseRevokesSession ==
  \A k \in DOMAIN issued :
    LET s == issued[k].refresh
        sid == issued[k].sessionID
        r == Run(World, RefreshFrame(sid, s))
    IN wins[s] >= 1 =>
         /\ r.last.out = "TOKEN_INVALID"
         /\ \A i \in DOMAIN r.sessions :
              r.sessions[i].sessionID = sid => r.sessions[i].revoked
         /\ \A t \in 0..nextSecret :
              Run(r, RefreshFrame(sid, t)).last.out # "OK"

\* C17: a Refresh that presents the current secret of a session that is
\* revoked, or whose refresh-token row has expired, fails with TOKEN_EXPIRED
\* or TOKEN_INVALID and leaves the session revoked.
DeadSessionRefreshRevokes ==
  \A i \in DOMAIN sessions, k \in DOMAIN issued :
    LET sid == sessions[i].sessionID
        s == issued[k].refresh
        r == Run(World, RefreshFrame(sid, s))
    IN (/\ IsCurrentSecret(World, sid, s)
        /\ \/ sessions[i].revoked
           \/ refreshTokens[sessions[i].refreshTokenID].expiresAt <= now)
       => /\ r.last.out \in {"TOKEN_EXPIRED", "TOKEN_INVALID"}
          /\ r.sessions[i].revoked

(***************************************************************************)
(* Concurrent admin requests: ForceLogoutUser, UpdateUserRole and          *)
(* UpdateUserStatus run statement by statement on two workers, between     *)
(* whole Register, Login and Refresh requests.                             *)
(***************************************************************************)
\* The first statement of an admin request on worker p: the handler's
\* userRepo.GetByID and the change of the loaded row.
BeginAdmin(p, f) ==
  /\ proc[p] = Idle
  /\ adminOps < MaxAdminRequests
  /\ LET r == Step(World, f) IN
       /\ Commit(r.w)
       /\ proc' = [proc EXCEPT ![p] = r.f]
  /\ adminOps' = adminOps + 1

BeginForceLogoutUser(p, userID) == BeginAdmin(p, ForceLogoutUserFrame(userID))

BeginUpdateUserRole(p, userID, role) == BeginAdmin(p, UpdateUserRoleFrame(userID, role))

BeginUpdateUserStatus(p, userID, status) ==
  BeginAdmin(p, UpdateUserStatusFrame(userID, status))

NextAdmin ==
  \/ \E r \in RegisterInputs, pw \in RegisterPasswords : Register(r[1], r[2], pw)
  \/ \E u \in Usernames, pw \in LoginPasswords : Login(u, pw)
  \/ \E sid \in KnownSessionIDs, s \in KnownSecrets : Refresh(sid, s)
  \/ \E p \in Procs, uid \in DOMAIN users : BeginForceLogoutUser(p, uid)
  \/ \E p \in Procs, uid \in DOMAIN users, role \in Roles :
        BeginUpdateUserRole(p, uid, role)
  \/ \E p \in Procs, uid \in DOMAIN users, st \in StatusInputs :
        BeginUpdateUserStatus(p, uid, st)
  \/ \E p \in Procs : Continue(p)

SpecAdmin == Init /\ [][NextAdmin]_vars

\* The payload of the access token a Refresh of session sessionID with
\* secret s mints when called in the current state, <<>> when it fails.
RefreshedPayload(sessionID, s) ==
  LET r == Run(World, RefreshFrame(sessionID, s))
  IN IF r.last.out = "OK" THEN r.issued[Len(r.issued)].access.payload ELSE <<>>

\* The access token of a successful Refresh carries the role the principal
\* has when the Refresh reads it, also when an admin changed the role after
\* the pair being refreshed was handed out.
RefreshCarriesLiveRole ==
  \A k \in DOMAIN issued :
    LET a == RefreshedPayload(issued[k].sessionID, issued[k].refresh)
    IN a # <<>> => a.role = users[issued[k].userID].role

\* A pair was handed out with one role, the role was changed since, and a
\* Refresh of the pair succeeds with the new role in its token.
RefreshAfterRoleChange ==
  \E k \in DOMAIN issued :
    LET a == RefreshedPayload(issued[k].sessionID, issued[k].refresh)
    IN /\ a # <<>>
       /\ issued[k].access.payload.role # users[issued[k].userID].role
       /\ a.role = users[issued[k].userID].role

\* C18: when the principal's role or token version changed after the pair
\* being refreshed was handed out, the access token of a successful Refresh
\* carries the role and the token version of the principal row as it is
\* when the Refresh reads it.
RefreshCarriesLivePrincipal ==
  \A k \in DOMAIN issued :
    LET a == RefreshedPayload(issued[k].sessionID, issued[k].refresh)
        u == users[issued[k].userID]
    IN (/\ a # <<>>
        /\ \/ issued[k].access.payload.role # u.role
           \/ issued[k].forced)
       => /\ a.role = u.role
          /\ "ver" \in DOMAIN a
          /\ a.ver = u.tokenVersion

\* C19: RequireAuth answers a token that names a revoked or unknown session
\* with one of the typed unauthorized outcomes; it neither accepts the
\* request nor panics.
DeadSessionTypedUnauthorized ==
  \A i \in DOMAIN issued :
    (\A k \in DOMAIN sessions :
       sessions[k].sessionID = issued[i].sessionID => sessions[k].revoked)
    => RequireAuthOutcome(World, issued[i].access)
         \in {"TOKEN_INVALID", "TOKEN_EXPIRED", "SESSION_NOT_FOUND", "SESSION_REVOKED"}

\* C20: no step lowers the stored token version of a principal, however the
\* statements of concurrent ForceLogoutUser, UpdateUserRole and
\* UpdateUserStatus requests on it interleave.
TokenVersionNeverDecreases ==
  [][\A u \in DOMAIN users : users'[u].tokenVersion >= users[u].tokenVersion]_vars

\* C21: a ForceLogoutUser of principal u, called in any state, raises u's
\* token version by exactly 1 and leaves every other field of u, every other
\* principal, every session and every refresh-token row as they were.
ForceLogoutOnlyBumpsVersion ==
  \A u \in DOMAIN users :
    LET w == Run(World, ForceLogoutUserFrame(u)) IN
      /\ w.last.out = "OK"
      /\ w.users = [users EXCEPT ![u].tokenVersion = @ + 1]
      /\ w.sessions = sessions
      /\ w.refreshTokens = refreshTokens

\* C21 witness: a ForceLogoutUser has completed for a principal that has a
\* session, and the session is still not revoked.
ForceLogoutHasActed ==
  \E i \in DOMAIN issued, k \in DOMAIN sessions :
    /\ issued[i].forced
    /\ users[issued[i].userID].tokenVersion = 1
    /\ sessions[k].sessionID = issued[i].sessionID
    /\ ~sessions[k].revoked
    /\ Len(users) = 2

\* C22: every access token handed out by Login or Refresh carries the
\* principal id, the session id, the role and, as claim ver, the principal's
\* token version, which is at most the version stored now.
AccessTokenEmbedsVersion ==
  \A i \in DOMAIN issued :
    LET p == issued[i].access.payload IN
      /\ p.user_id = issued[i].userID
      /\ p.session_id = issued[i].sessionID
      /\ p.role \in Roles
      /\ "ver" \in DOMAIN p
      /\ p.ver \in 0..users[issued[i].userID].tokenVersion

(***************************************************************************)
(* The signing-key set: JWKKey rows created by NewJWKKey and changed by    *)
(* Rotate and Retire through the JWKKeyRepository.                         *)
(***************************************************************************)
Kids == {"k1", "k2", "k3"}

NewJWKKey(kid, alg, publicJWK) ==
  [kid |-> kid, alg |-> alg, publicJWK |-> publicJWK, active |-> TRUE,
   rotatedAt |-> Null, retiredAt |-> Null]

\* JWKKey.Rotate
Rotate(k, t) == [k EXCEPT !.rotatedAt = t, !.active = FALSE]

\* JWKKey.Retire
Retire(k, t) == [k EXCEPT !.retiredAt = t, !.active = FALSE]

\* JWKKeyRepository.Create of a new key; kid is the primary key.
CreateKey(kid) ==
  /\ \A k \in jwkKeys : k.kid # kid
  /\ jwkKeys' = jwkKeys \cup {NewJWKKey(kid, "RS256", kid)}
  /\ UNCHANGED <<users, refreshTokens, sessions, now, nextSecret, nextSessionID,
                 proc, issued, adminOps, wins, loggedOut, jwks, mq>>

\* JWKKeyRepository.RotateKey
RotateKey(kid) ==
  /\ \E k \in jwkKeys : k.kid = kid
  /\ jwkKeys' = {IF k.kid = kid THEN Rotate(k, now) ELSE k : k \in jwkKeys}
  /\ UNCHANGED <<users, refreshTokens, sessions, now, nextSecret, nextSessionID,
                 proc, issued, adminOps, wins, loggedOut, jwks, mq>>

\* JWKKeyRepository.RetireKey
RetireKey(kid) ==
  /\ \E k \in jwkKeys : k.kid = kid
  /\ jwkKeys' = {IF k.kid = kid THEN Retire(k, now) ELSE k : k \in jwkKeys}
  /\ UNCHANGED <<users, refreshTokens, sessions, now, nextSecret, nextSessionID,
                 proc, issued, adminOps, wins, loggedOut, jwks, mq>>

NextKeys ==
  \/ \E kid \in Kids : CreateKey(kid)
  \/ \E kid \in Kids : RotateKey(kid)
  \/ \E kid \in Kids : RetireKey(kid)
  \/ Tick

SpecKeys == Init /\ [][NextKeys]_vars

\* C23: once the first key exists, exactly one key of the set is active.
ExactlyOneActiveKey ==
  jwkKeys # {} => Cardinality({k \in jwkKeys : k.active}) = 1

(***************************************************************************)
(* JWKSValidator: tokens are verified with the public key their kid header *)
(* names, fetched from the published key set and cached.  A key is named   *)
(* by its kid; a token carries the kid of its header, the key that signed  *)
(* it and its expiry.                                                      *)
(***************************************************************************)
MaxValidatorTime == 4

CacheTTL == 2

PublishedKids == {"k1", "k2"}

TokenKids == PublishedKids \cup {"unknown-key", ""}

SigningKeys == PublishedKids \cup {"other-key"}

JWKSTokens == [kid : TokenKids, key : SigningKeys, exp : {1, MaxValidatorTime + 1}]

FetchOutcomes == {"ok", "unreachable"}

\* A variant of getPublicKey that falls back to a cached key when the kid
\* is not in the fetched key set.
getPublicKeyFallback(v, t, kid, fetch) ==
  IF v.cacheTime # Null /\ t - v.cacheTime < CacheTTL /\ kid \in v.cache
  THEN [key |-> kid, err |-> "", v |-> v]
  ELSE IF fetch # "ok"
  THEN [key |-> "", err |-> "ErrJWKSFetch", v |-> v]
  ELSE IF kid \in v.published
  THEN [key |-> kid, err |-> "",
        v |-> [v EXCEPT !.cache = @ \cup {kid}, !.cacheTime = t]]
  ELSE IF v.cache # {}
  THEN [key |-> CHOOSE k \in v.cache : TRUE, err |-> "", v |-> v]
  ELSE [key |-> "", err |-> "ErrKeyNotFound", v |-> v]

\* getPublicKey: the key, or the error, and the validator it leaves.
getPublicKey(v, t, kid, fetch) ==
  IF v.cacheTime # Null /\ t - v.cacheTime < CacheTTL /\ kid \in v.cache
  THEN [key |-> kid, err |-> "", v |-> v]
  ELSE IF fetch # "ok"
  THEN [key |-> "", err |-> "ErrJWKSFetch", v |-> v]
  ELSE IF kid \in v.published
  THEN [key |-> kid, err |-> "",
        v |-> [v EXCEPT !.cache = @ \cup {kid}, !.cacheTime = t]]
  ELSE [key |-> "", err |-> "ErrKeyNotFound", v |-> v]

\* ValidateTokenWithJWKS: the error ("" for nil), the claims (Null for nil)
\* and the validator it leaves.  Every error of the key function and of the
\* signature check comes back as ErrInvalidToken.
ValidateTokenWithJWKS(v, t, tok, fetch) ==
  IF tok.kid = ""
  THEN [err |-> "ErrInvalidToken", claims |-> Null, v |-> v]
  ELSE LET k == getPublicKey(v, t, tok.kid, fetch) IN
       IF k.err # ""
       THEN [err |-> "ErrInvalidToken", claims |-> Null, v |-> k.v]
       ELSE IF tok.key # k.key
       THEN [err |-> "ErrInvalidToken", claims |-> Null, v |-> k.v]
       ELSE IF ~(t < tok.exp)
       THEN [err |-> "ErrExpiredToken", claims |-> Null, v |-> k.v]
       ELSE [err |-> "", claims |-> [exp |-> tok.exp], v |-> k.v]

\* The issuer adds a key to the published key set.
PublishKey(kid) ==
  /\ kid \notin jwks.everPublished
  /\ jwks' = [jwks EXCEPT !.published = @ \cup {kid}, !.everPublished = @ \cup {kid}]
  /\ UNCHANGED <<users, refreshTokens, sessions, now, nextSecret, nextSessionID,
                 proc, issued, adminOps, wins, loggedOut, jwkKeys, mq>>

\* The issuer removes a key from the published key set.
PurgeKey(kid) ==
  /\ kid \in jwks.published
  /\ jwks' = [jwks EXCEPT
                !.published = @ \ {kid},
                !.purgedAt = [k \in DOMAIN @ \cup {kid} |->
                                IF k = kid THEN now ELSE @[k]]]
  /\ UNCHANGED <<users, refreshTokens, sessions, now, nextSecret, nextSessionID,
                 proc, issued, adminOps, wins, loggedOut, jwkKeys, mq>>

\* A service verifies a token; the fetch of the key set may fail.
ValidateWithJWKS(tok, fetch) ==
  /\ LET r == ValidateTokenWithJWKS(jwks, now, tok, fetch) IN
       jwks' = [r.v EXCEPT !.last = [kid |-> tok.kid, err |-> r.err]]
  /\ UNCHANGED <<users, refreshTokens, sessions, now, nextSecret, nextSessionID,
                 proc, issued, adminOps, wins, loggedOut, jwkKeys, mq>>

ValidatorTick ==
  /\ now < MaxValidatorTime
  /\ now' = now + 1
  /\ UNCHANGED <<users, refreshTokens, sessions, nextSecret, nextSessionID,
                 proc, issued, adminOps, wins, loggedOut, others>>

NextJWKS ==
  \/ \E kid \in PublishedKids : PublishKey(kid)
  \/ \E kid \in PublishedKids : PurgeKey(kid)
  \/ \E tok \in JWKSTokens, fetch \in FetchOutcomes : ValidateWithJWKS(tok, fetch)
  \/ ValidatorTick

SpecJWKS == Init /\ [][NextJWKS]_vars

\* C24: a token whose kid was never in the published key set is answered
\* with ErrInvalidToken and no claims, whoever signed it, whether it is
\* expired or not and whether or not the key set can be fetched.
NeverPublishedKidIsInvalid ==
  \A tok \in JWKSTokens, fetch \in FetchOutcomes :
    (tok.kid # "" /\ tok.kid \notin jwks.everPublished) =>
      LET r == ValidateTokenWithJWKS(jwks, now, tok, fetch) IN
        r.err = "ErrInvalidToken" /\ r.claims = Null

\* C24 witness: the validator holds a cached key, and its last answer, to a
\* token naming a kid that was never published, was ErrInvalidToken.
NeverPublishedKidRejected ==
  /\ jwks.cache # {}
  /\ jwks.last.kid = "unknown-key"
  /\ jwks.last.err = "ErrInvalidToken"

\* C25: once more than one cacheTTL has passed since a key was purged from
\* the published key set, the validator accepts no token signed under its
\* kid, whatever it has fetched in the meantime.
StalenessBoundedByTTL ==
  \A kid \in DOMAIN jwks.purgedAt :
    now > jwks.purgedAt[kid] + CacheTTL =>
      \A tok \in JWKSTokens, fetch \in FetchOutcomes :
        tok.kid = kid => ValidateTokenWithJWKS(jwks, now, tok, fetch).err # ""

\* C26: when the rotation transaction of a Refresh fails at any of its
\* statements, the Refresh returns an error and the refresh-token rows and
\* the session rows are as they were: the old token is still unused, the
\* session still points to it and no new token row exists.
RotationAllOrNothing ==
  \A k \in DOMAIN issued, failAt \in TxFailures \ {"none"} :
    LET r == Run(World, RefreshFailingFrame(issued[k].sessionID,
                                            issued[k].refresh, failAt))
    IN Outcome(RefreshFrame(issued[k].sessionID, issued[k].refresh)) = "OK" =>
         /\ r.last.out = "INTERNAL"
         /\ r.refreshTokens = refreshTokens
         /\ r.sessions = sessions
         /\ r.issued = issued
         /\ Run(r, RefreshFrame(issued[k].sessionID, issued[k].refresh)).last.out
              = "OK"

\* C26 witness: a session that was rotated before has a current secret whose
\* Refresh succeeds when the transaction commits and returns an error when
\* the transaction fails at its last statement.
RotationFailsAfterARotation ==
  \E k \in DOMAIN issued :
    /\ issued[k].by = "Refresh"
    /\ Outcome(RefreshFrame(issued[k].sessionID, issued[k].refresh)) = "OK"
    /\ Outcome(RefreshFailingFrame(issued[k].sessionID, issued[k].refresh,
                                   "commit")) = "INTERNAL"

(***************************************************************************)
(* MemoryMQ.  A subscription is a consumer channel with its workers; the   *)
(* handler of a subscription fails or succeeds as its caller decides.      *)
(***************************************************************************)
MaxMessages == 2

MaxSubscriptions == 2

ConsumerBuffer == 1

Topics == {"orders"}

WorkerCounts == {1, 2}

MaxRetryInputs == {0, 1}

\* A variant of Subscribe without the test of the closed flag.
SubscribeUnguarded(q, topic, workers, maxRetry) ==
  [err |-> "",
   q |-> [q EXCEPT !.subs =
            Append(@, [topic |-> topic, chan |-> <<>>, chanClosed |-> FALSE,
                       maxRetry |-> maxRetry,
                       workers |-> [k \in 1..workers |->
                                      [st |-> "receive", msg |-> 0]],
                       calls |-> [m \in 1..MaxMessages |-> 0],
                       done |-> {}])]]

\* Subscribe up to the start of the workers: ErrMQClosed on a closed queue,
\* else a new consumer channel appended to the topic's consumers.  calls
\* counts the handler invocations per message and done holds the messages
\* for which the handler returned nil.
Subscribe(q, topic, workers, maxRetry) ==
  IF q.closed THEN [err |-> "ErrMQClosed", q |-> q]
  ELSE [err |-> "",
        q |-> [q EXCEPT !.subs =
                 Append(@, [topic |-> topic, chan |-> <<>>, chanClosed |-> FALSE,
                            maxRetry |-> maxRetry,
                            workers |-> [k \in 1..workers |->
                                           [st |-> "receive", msg |-> 0]],
                            calls |-> [m \in 1..MaxMessages |-> 0],
                            done |-> {}])]]

\* PublishWithDelay with no delay: ErrMQClosed on a closed queue, else the
\* message is sent to every consumer channel of the topic whose buffer has
\* room (select with default), and nil is returned.
Publish(q, topic) ==
  IF q.closed THEN [err |-> "ErrMQClosed", q |-> q]
  ELSE LET m == Len(q.msgs) + 1
           consumers == {i \in DOMAIN q.subs :
                           q.subs[i].topic = topic /\ ~q.subs[i].chanClosed}
       IN [err |-> "",
           q |-> [q EXCEPT
                    !.msgs = Append(@, [topic |-> topic, retry |-> 0,
                                        consumers |-> consumers]),
                    !.subs = [i \in DOMAIN @ |->
                                IF i \in consumers /\ Len(@[i].chan) < ConsumerBuffer
                                THEN [@[i] EXCEPT !.chan = Append(@, m)]
                                ELSE @[i]]]]

\* Close: nil on a closed queue, else every consumer channel is closed.
Close(q) ==
  IF q.closed THEN [err |-> "", q |-> q]
  ELSE [err |-> "",
        q |-> [q EXCEPT !.closed = TRUE,
                        !.subs = [i \in DOMAIN @ |-> [@[i] EXCEPT !.chanClosed = TRUE]]]]

\* worker: the receive from the consumer channel.  A closed and drained
\* channel yields nil and the worker returns.
workerReceive(q, i, k) ==
  LET sub == q.subs[i] IN
  IF sub.chan # <<>>
  THEN [q EXCEPT !.subs[i].chan = Tail(@),
                 !.subs[i].workers[k] = [st |-> "process", msg |-> Head(sub.chan)]]
  ELSE [q EXCEPT !.subs[i].workers[k] = [st |-> "returned", msg |-> 0]]

\* processMessage, one turn of its loop: the handler is invoked while
\* msg.Retry <= MaxRetry; ok is what the handler returns.
processMessage(q, i, k, ok) ==
  LET sub == q.subs[i]
      m == sub.workers[k].msg
  IN IF ~(q.msgs[m].retry <= sub.maxRetry)
     THEN \* ErrMaxRetriesExceeded
          [q EXCEPT !.subs[i].workers[k] = [st |-> "receive", msg |-> 0]]
     ELSE IF ok
     THEN [q EXCEPT !.subs[i].calls[m] = @ + 1,
                    !.subs[i].done = @ \cup {m},
                    !.subs[i].workers[k] = [st |-> "receive", msg |-> 0]]
     ELSE [q EXCEPT !.subs[i].calls[m] = @ + 1,
                    !.msgs[m].retry = @ + 1]

MQUnchanged ==
  UNCHANGED <<users, refreshTokens, sessions, now, nextSecret, nextSessionID,
              proc, issued, adminOps, wins, loggedOut, jwkKeys, jwks>>

MQSubscribe(topic, workers, maxRetry) ==
  /\ Len(mq.subs) < MaxSubscriptions
  /\ mq' = Subscribe(mq, topic, workers, maxRetry).q
  /\ MQUnchanged

MQPublish(topic) ==
  /\ Len(mq.msgs) < MaxMessages
  /\ mq' = Publish(mq, topic).q
  /\ MQUnchanged

MQClose ==
  /\ mq' = Close(mq).q
  /\ MQUnchanged

MQWorkerReceive(i, k) ==
  /\ mq.subs[i].workers[k].st = "receive"
  /\ mq.subs[i].chan # <<>> \/ mq.subs[i].chanClosed
  /\ mq' = workerReceive(mq, i, k)
  /\ MQUnchanged

MQProcessMessage(i, k, ok) ==
  /\ mq.subs[i].workers[k].st = "process"
  /\ mq' = processMessage(mq, i, k, ok)
  /\ MQUnchanged

NextMQ ==
  \/ \E t \in Topics, n \in WorkerCounts, r \in MaxRetryInputs : MQSubscribe(t, n, r)
  \/ \E t \in Topics : MQPublish(t)
  \/ MQClose
  \/ \E i \in DOMAIN mq.subs : \E k \in DOMAIN mq.subs[i].workers :
       MQWorkerReceive(i, k)
  \/ \E i \in DOMAIN mq.subs : \E k \in DOMAIN mq.subs[i].workers, ok \in BOOLEAN :
       MQProcessMessage(i, k, ok)

SpecMQ == Init /\ [][NextMQ]_vars

\* C27: on a closed MemoryMQ every Publish and every Subscribe returns
\* ErrMQClosed and changes nothing, a further Close returns nil, and the
\* queue stays closed.
ClosedQueueRefuses ==
  mq.closed =>
    /\ \A t \in Topics : Publish(mq, t) = [err |-> "ErrMQClosed", q |-> mq]
    /\ \A t \in Topics, n \in WorkerCounts, r \in MaxRetryInputs :
         Subscribe(mq, t, n, r) = [err |-> "ErrMQClosed", q |-> mq]
    /\ Close(mq) = [err |-> "", q |-> mq]

\* C27 witness: the queue was closed while it had a subscription and
\* messages had been published.
ClosedAfterUse ==
  /\ mq.closed
  /\ mq.subs # <<>>
  /\ mq.msgs # <<>>

\* What C28 says of one step of worker k of subscription i: a message being
\* processed has not yet got a nil return, the handler has been invoked for
\* it at most MaxRetry+1 times, and the worker leaves it only after a nil
\* return or after MaxRetry+1 invocations.
RetryStep(i, k) ==
  LET sub == mq.subs[i]
      m == sub.workers[k].msg
  IN sub.workers[k].st = "process" =>
       /\ m \notin sub.done
       /\ mq'.subs[i].calls[m] <= sub.maxRetry + 1
       /\ mq'.subs[i].workers[k].st = "receive" =>
            \/ m \in mq'.subs[i].done
            \/ mq'.subs[i].calls[m] = sub.maxRetry + 1

\* C28: for each delivered message the handler is invoked again after every
\* failure until it first returns nil, at most MaxRetry+1 times in total,
\* and never again after a nil return.
RetryUntilSuccess ==
  [][\A i \in DOMAIN mq.subs : \A k \in DOMAIN mq.subs[i].workers : RetryStep(i, k)]_vars

\* The same for the messages that were sent to one consumer channel only.
RetryUntilSuccessUnshared ==
  [][\A i \in DOMAIN mq.subs : \A k \in DOMAIN mq.subs[i].workers :
       (mq.subs[i].workers[k].st = "process"
          => mq.msgs[mq.subs[i].workers[k].msg].consumers = {i})
       => RetryStep(i, k)]_vars

\* The number of times message m is, or has been, with subscription i: in
\* its channel, with one of its workers, or handled.
Deliveries(i, m) ==
  LET sub == mq.subs[i] IN
    Cardinality({p \in DOMAIN sub.chan : sub.chan[p] = m})
    + Cardinality({k \in DOMAIN sub.workers :
                     sub.workers[k].st = "process" /\ sub.workers[k].msg = m})
    + (IF m \in sub.done THEN 1 ELSE 0)

\* C29: every message whose Publish returned nil while a subscription of
\* its topic was active is passed to that subscription exactly once: it is
\* waiting in the channel, with one worker, or was handled, and the handler
\* was invoked for it at most once when no handler failed for it.
DeliveredExactlyOnce ==
  \A m \in DOMAIN mq.msgs : \A i \in mq.msgs[m].consumers :
    mq.msgs[m].retry = 0 =>
      /\ Deliveries(i, m) = 1
      /\ mq.subs[i].calls[m] <= 1
      /\ mq.subs[i].calls[m] = 1 <=> m \in mq.subs[i].done

\* The same for the messages that found room in the consumer channel.
EnqueuedDeliveredOnce ==
  \A m \in DOMAIN mq.msgs : \A i \in mq.msgs[m].consumers :
    mq.msgs[m].retry = 0 =>
      /\ Deliveries(i, m) <= 1
      /\ mq.subs[i].calls[m] <= 1
      /\ mq.subs[i].calls[m] = 1 <=> m \in mq.subs[i].done

\* C30: no Refresh hands out a token pair for a session that was already
\* revoked when its rotation was written: in every step in which a Refresh
\* returns a pair, the session of the pair is not revoked.
NoRefreshOfRevokedSession ==
  [][(/\ Len(issued') > Len(issued)
      /\ issued'[Len(issued')].by = "Refresh")
     => \A i \in DOMAIN sessions :
          sessions[i].sessionID = issued'[Len(issued')].sessionID
            => ~sessions[i].revoked]_vars

(***************************************************************************)
(* Registration: Register runs statement by statement on two workers, on   *)
(* usernames and passwords at and just beyond the limits of the length     *)
(* policy.                                                                 *)
(***************************************************************************)
\* RegisterInputs and usernames of 2, 50 and 51 characters ("bob" has 3).
PolicyRegisterInputs ==
  RegisterInputs \cup
    {<<"al", "al@x.com">>,
     <<"uuuuuuuuuuuuuuuuuuuuuuuuuuuuuuuuuuuuuuuuuuuuuuuuuu", "max@x.com">>,
     <<"uuuuuuuuuuuuuuuuuuuuuuuuuuuuuuuuuuuuuuuuuuuuuuuuuuu", "long@x.com">>}

\* Passwords of 7, 8, 128 and 129 characters.
PolicyPasswords ==
  {"Secret1", "Secret12",
   "S1xxxxxxxxxxxxxxxxxxxxxxxxxxxxxxxxxxxxxxxxxxxxxxxxxxxxxxxxxxxxxxxxxxxxxxxxxxxxxxxxxxxxxxxxxxxxxxxxxxxxxxxxxxxxxxxxxxxxxxxxxxxxxx",
   "S1xxxxxxxxxxxxxxxxxxxxxxxxxxxxxxxxxxxxxxxxxxxxxxxxxxxxxxxxxxxxxxxxxxxxxxxxxxxxxxxxxxxxxxxxxxxxxxxxxxxxxxxxxxxxxxxxxxxxxxxxxxxxxxx"}

BeginRegister(p, username, email, password) ==
  Start(p, RegisterFrame(username, email, password))

NextRegister ==
  \/ \E p \in Procs, r \in PolicyRegisterInputs, pw \in PolicyPasswords :
        BeginRegister(p, r[1], r[2], pw)
  \/ \E p \in Procs : Continue(p)

SpecRegister == Init /\ [][NextRegister]_vars

\* C31: no concurrent Register ends in an untyped error: the statement a
\* Register in flight runs next returns nothing yet, or the principal, or one
\* of the typed outcomes USER_ALREADY_EXISTS and INVALID_PASSWORD.
ConcurrentRegisterTyped ==
  \A p \in Procs :
    proc[p].op = "Register"
      => Step(World, proc[p]).w.last.out
           \in {"none", "OK", "USER_ALREADY_EXISTS", "INVALID_PASSWORD"}

\* C31, the part the unique indexes keep: no two stored principals have the
\* same username or the same email.
UniqueUsernameAndEmail ==
  \A i, j \in DOMAIN users :
    i # j => users[i].username # users[j].username /\ users[i].email # users[j].email

\* C34: a Register whose username has fewer than 3 or more than 50
\* characters, or whose password has fewer than 8 or more than 128, fails
\* with INVALID_PASSWORD and leaves the users table as it was.
RegisterPolicyRejected ==
  \A r \in PolicyRegisterInputs, pw \in PolicyPasswords :
    LET w == Run(World, RegisterFrame(r[1], r[2], pw)) IN
      ( \/ Len(r[1]) < 3 \/ Len(r[1]) > 50
        \/ Len(pw) < 8 \/ Len(pw) > 128 )
      => /\ w.last.out = "INVALID_PASSWORD"
         /\ w.users = users

\* C34 witness: a username of 50 characters is registered with a password
\* of 8 or of 128 characters, and Register is turned away for a username of
\* 2 and one of 51 characters, and for a password of 7 and one of 129.
RegisterPolicyCases ==
  /\ \E i \in DOMAIN users :
       Len(users[i].username) = 50 /\ Len(users[i].password[2]) \in {8, 128}
  /\ \A n \in {2, 51} : \E r \in PolicyRegisterInputs, pw \in PolicyPasswords :
       /\ Len(r[1]) = n /\ Len(pw) = 8
       /\ Outcome(RegisterFrame(r[1], r[2], pw)) = "INVALID_PASSWORD"
  /\ \A n \in {7, 129} : \E r \in PolicyRegisterInputs, pw \in PolicyPasswords :
       /\ Len(r[1]) = 5 /\ Len(pw) = n
       /\ Outcome(RegisterFrame(r[1], r[2], pw)) = "INVALID_PASSWORD"

(***************************************************************************)
(* SessionUseCase.ListUserSessions                                         *)
(***************************************************************************)
\* sessionRepository.ListActiveByUser: the session ids of the rows the query
\* selects; the argument now is not used by the query.
ListActiveByUser(w, userID, t) ==
  {w.sessions[i].sessionID :
     i \in {j \in DOMAIN w.sessions :
              w.sessions[j].userID = userID /\ w.sessions[j].revoked = FALSE}}

\* C32: ListActiveByUser(p, now) is exactly the set of sessions of p that
\* are not revoked and whose refresh secret has not expired at now.
ListsExactlyActiveSessions ==
  \A uid \in DOMAIN users :
    ListActiveByUser(World, uid, now) =
      {sessions[i].sessionID :
         i \in {j \in DOMAIN sessions :
                  /\ sessions[j].userID = uid
                  /\ ~sessions[j].revoked
                  /\ sessions[j].refreshTokenID \in DOMAIN refreshTokens
                  /\ refreshTokens[sessions[j].refreshTokenID].expiresAt > now}}

\* C32, the part the query keeps: every session listed for p is owned by p
\* and not revoked, and every session of p that is not revoked is listed.
ListsUnrevokedSessions ==
  \A uid \in DOMAIN users, i \in DOMAIN sessions :
    sessions[i].sessionID \in ListActiveByUser(World, uid, now)
      <=> (sessions[i].userID = uid /\ ~sessions[i].revoked)

(***************************************************************************)
(* The expiry sweep: logins, refreshes and logouts of one principal over a *)
(* clock that runs past the retention window, and CleanupExpiredSessions.  *)
(***************************************************************************)
MaxSweepTime == 5

\* The 30 days of CleanupExpiredSessions, in ticks.
RetentionWindow == 2

\* sessionRepository.CleanupExpired: DELETE FROM sessions WHERE revoked = true
\* AND created_at < olderThan.
CleanupExpired(w, olderThan) ==
  LET kept(s) == ~(s.revoked /\ s.createdAt < olderThan)
  IN SelectSeq(w.sessions, kept)

CleanupExpiredSessions ==
  /\ \A q \in Procs : proc[q] = Idle
  /\ sessions' = CleanupExpired(World, now - RetentionWindow)
  /\ UNCHANGED others
  /\ UNCHANGED <<users, refreshTokens, now, nextSecret, nextSessionID, proc, issued,
                 adminOps, wins, loggedOut>>

SweepTick ==
  /\ now < MaxSweepTime
  /\ now' = now + 1
  /\ UNCHANGED others
  /\ UNCHANGED <<users, refreshTokens, sessions, nextSecret, nextSessionID,
                 proc, issued, adminOps, wins, loggedOut>>

NextSweep ==
  \/ Register("alice", "alice@x.com", "Secret123!")
  \/ Login("alice", "Secret123!")
  \/ \E sid \in KnownSessionIDs, s \in KnownSecrets : Refresh(sid, s)
  \/ \E sid \in KnownSessionIDs : Logout(sid)
  \/ CleanupExpiredSessions
  \/ SweepTick

SpecSweep == Init /\ [][NextSweep]_vars

\* The time at which the refresh secret of session row s expires.
SecretExpiresAt(s) ==
  IF s.refreshTokenID \in DOMAIN refreshTokens
  THEN refreshTokens[s.refreshTokenID].expiresAt ELSE Null

\* C33: the sessions the expiry sweep leaves hold no session whose refresh
\* secret expired longer ago than the retention window, and hold every
\* session that is active (not revoked, refresh secret not expired).
SweepRemovesExpired ==
  LET left == CleanupExpired(World, now - RetentionWindow) IN
    /\ \A i \in DOMAIN left :
         ~(SecretExpiresAt(left[i]) < now - RetentionWindow)
    /\ \A i \in DOMAIN sessions :
         (~sessions[i].revoked /\ SecretExpiresAt(sessions[i]) > now)
           => \E j \in DOMAIN left : left[j] = sessions[i]

\* C33, the part the sweep keeps: every session that is not revoked is
\* retained.
SweepKeepsUnrevoked ==
  LET left == CleanupExpired(World, now - RetentionWindow) IN
    \A i \in DOMAIN sessions :
      ~sessions[i].revoked => \E j \in DOMAIN left : left[j] = sessions[i]

\* The rows of the refresh_tokens table that have not been deleted.
StoredTokens(tokens) ==
  {[id |-> i, row |-> tokens[i]] : i \in {j \in DOMAIN tokens : ~tokens[j].deleted}}

\* C35: a Login that fails after it created its refresh-token row, because
\* creating the session fails or because the request is cancelled, leaves
\* the sessions and the refresh-token rows as they were before the call.
FailedLoginLeavesNoTrace ==
  \A u \in Usernames, pw \in LoginPasswords, failAt \in LoginFailures \ {"none"} :
    LET w == Run(World, LoginFailingFrame(u, pw, failAt)) IN
      w.last.out = "INTERNAL"
        => /\ w.sessions = sessions
           /\ StoredTokens(w.refreshTokens) = StoredTokens(refreshTokens)

\* C35, the part the clean-up keeps: when sessionRepo.Create fails with a
\* database error under a live context, the stores are left as they were.
FailedCreateSessionLeavesNoTrace ==
  \A u \in Usernames, pw \in LoginPasswords :
    LET w == Run(World, LoginFailingFrame(u, pw, "createSession")) IN
      w.last.out = "INTERNAL"
        => /\ w.sessions = sessions
           /\ StoredTokens(w.refreshTokens) = StoredTokens(refreshTokens)

\* The session ids of the rows of a sessions table.
SessionIDs(rows) == {rows[i].sessionID : i \in DOMAIN rows}

\* C36: a successful Refresh(sid, s) returns the session id sid and a
\* refresh secret other than s, and leaves the set of session ids, and the
\* number of session rows, as they were.
RefreshKeepsSessionSet ==
  \A sid \in KnownSessionIDs, s \in KnownSecrets :
    LET w == Run(World, RefreshFrame(sid, s)) IN
      w.last.out = "OK"
        => /\ w.issued[w.last.ix].sessionID = sid
           /\ w.issued[w.last.ix].refresh # s
           /\ SessionIDs(w.sessions) = SessionIDs(sessions)
           /\ Len(w.sessions) = Len(sessions)

\* C36 witness: two sessions are stored, one of them has been refreshed,
\* and a Refresh of the other with its secret succeeds.
RefreshedOneOfTwoSessions ==
  /\ Len(sessions) = 2
  /\ \E i, j \in DOMAIN issued :
       /\ issued[i].by = "Refresh"
       /\ issued[j].sessionID # issued[i].sessionID
       /\ Outcome(RefreshFrame(issued[j].sessionID, issued[j].refresh)) = "OK"

\* C37: Refresh(sid2, s) with the current secret s of another session sid1
\* fails with TOKEN_INVALID and leaves the sessions and the refresh-token
\* rows as they were, so that Refresh(sid1, s) fares as it did before.
RefreshBoundToSession ==
  \A sid1 \in KnownSessionIDs, sid2 \in KnownSessionIDs, s \in KnownSecrets :
    LET w == Run(World, RefreshFrame(sid2, s)) IN
      (sid1 # sid2 /\ IsCurrentSecret(World, sid1, s))
        => /\ w.last.out = "TOKEN_INVALID"
           /\ w.sessions = sessions
           /\ w.refreshTokens = refreshTokens
           /\ Run(w, RefreshFrame(sid1, s)).last.out = Outcome(RefreshFrame(sid1, s))

\* C37 witness: two sessions are live, the secret of the first is refused
\* with the id of the second, and accepted with the id of the first.
CrossSessionRefreshRefused ==
  \E i, j \in DOMAIN issued :
    /\ issued[i].sessionID # issued[j].sessionID
    /\ IsCurrentSecret(World, issued[i].sessionID, issued[i].refresh)
    /\ GetByID(World, issued[j].sessionID) # 0
    /\ Outcome(RefreshFrame(issued[j].sessionID, issued[i].refresh)) = "TOKEN_INVALID"
    /\ Outcome(RefreshFrame(issued[i].sessionID, issued[i].refresh)) = "OK"

\* C38: Refresh(sid, s) with the live current secret s of a live session
\* whose principal is no longer active fails with INVALID_CREDENTIALS,
\* returns no pair, writes no refresh-token row, and leaves the session
\* revoked and every other session as it was.
InactivePrincipalRefreshRevokes ==
  \A sid \in KnownSessionIDs, s \in KnownSecrets :
    LET w == Run(World, RefreshFrame(sid, s))
        ix == GetByID(World, sid)
    IN ( /\ ix # 0
         /\ IsCurrentSecret(World, sid, s)
         /\ GetByTokenHash(World, HashRefreshToken(s)) # 0
         /\ users[sessions[ix].userID].status # "active" )
       => /\ w.last.out = "INVALID_CREDENTIALS"
          /\ w.issued = issued
          /\ w.refreshTokens = refreshTokens
          /\ w.sessions = [sessions EXCEPT ![ix].revoked = TRUE]

\* C38 witness: a principal was made inactive after Login, its session is
\* not revoked and its secret is live, and Refresh is turned away.
InactivePrincipalRefreshed ==
  \E i \in DOMAIN issued :
    /\ users[issued[i].userID].status = "inactive"
    /\ GetByID(World, issued[i].sessionID) # 0
    /\ IsCurrentSecret(World, issued[i].sessionID, issued[i].refresh)
    /\ GetByTokenHash(World, HashRefreshToken(issued[i].refresh)) # 0
    /\ Outcome(RefreshFrame(issued[i].sessionID, issued[i].refresh)) = "INVALID_CREDENTIALS"

(***************************************************************************)
(* Publish against Close: PublishWithDelay runs on two goroutines, one     *)
(* critical section or one channel send per step, while Subscribe and      *)
(* Close run under the write lock.  The workers are left out: they only    *)
(* receive.                                                                *)
(***************************************************************************)
\* PublishWithDelay, lines 33-59: the closed flag is read under the read
\* lock, and the message is created after the lock is released.
PublishFrame(q, topic) ==
  IF q.closed THEN [op |-> "Publish", pc |-> "ErrMQClosed"]
  ELSE [op |-> "Publish", pc |-> "consumers", topic |-> topic,
        msg |-> Len(q.msgs) + 1, consumers |-> <<>>]

\* PublishWithDelay, lines 70-72: the topic's consumer channels are read
\* under the read lock; Close has deleted them from the map if it ran.
readConsumers(q, f) ==
  LET ids == {i \in DOMAIN q.subs : q.subs[i].topic = f.topic /\ ~q.subs[i].chanClosed}
      asSeq[S \in SUBSET ids] ==
        IF S = {} THEN <<>> ELSE <<Min(S)>> \o asSeq[S \ {Min(S)}]
  IN [f EXCEPT !.pc = "send", !.consumers = asSeq[ids]]

\* PublishWithDelay, lines 75-85, one turn of the loop: the select sends on
\* the next consumer channel, with no lock held.  A send on a channel that
\* Close has closed panics; a full buffer takes the default case.
sendToConsumer(q, f) ==
  IF f.consumers = <<>> THEN [q |-> q, f |-> Idle]
  ELSE LET i == Head(f.consumers) IN
    IF q.subs[i].chanClosed
    THEN [q |-> q, f |-> [op |-> "Publish", pc |-> "panic"]]
    ELSE [q |-> IF Len(q.subs[i].chan) < ConsumerBuffer
                THEN [q EXCEPT !.subs[i].chan = Append(@, f.msg)] ELSE q,
          f |-> [f EXCEPT !.consumers = Tail(@)]]

MQRaceUnchanged ==
  UNCHANGED <<users, refreshTokens, sessions, now, nextSecret, nextSessionID,
              issued, adminOps, wins, loggedOut, jwkKeys, jwks>>

BeginPublish(p, topic) ==
  /\ proc[p] = Idle
  /\ Len(mq.msgs) < MaxMessages
  /\ proc' = [proc EXCEPT ![p] = PublishFrame(mq, topic)]
  /\ mq' = IF mq.closed THEN mq
           ELSE [mq EXCEPT !.msgs = Append(@, [topic |-> topic, retry |-> 0,
                                               consumers |-> {}])]
  /\ MQRaceUnchanged

PublishReadConsumers(p) ==
  /\ proc[p].op = "Publish" /\ proc[p].pc = "consumers"
  /\ proc' = [proc EXCEPT ![p] = readConsumers(mq, proc[p])]
  /\ mq' = [mq EXCEPT !.msgs[proc[p].msg].consumers =
              {i \in DOMAIN mq.subs :
                 mq.subs[i].topic = proc[p].topic /\ ~mq.subs[i].chanClosed}]
  /\ MQRaceUnchanged

PublishSend(p) ==
  /\ proc[p].op = "Publish" /\ proc[p].pc = "send"
  /\ LET r == sendToConsumer(mq, proc[p]) IN
       /\ mq' = r.q
       /\ proc' = [proc EXCEPT ![p] = r.f]
  /\ MQRaceUnchanged

\* The caller takes the error ErrMQClosed.
PublishReturn(p) ==
  /\ proc[p].op = "Publish" /\ proc[p].pc = "ErrMQClosed"
  /\ proc' = [proc EXCEPT ![p] = Idle]
  /\ UNCHANGED mq
  /\ MQRaceUnchanged

NextMQRace ==
  \/ \E t \in Topics, n \in WorkerCounts, r \in MaxRetryInputs :
       MQSubscribe(t, n, r)
  \/ MQClose
  \/ \E p \in Procs, t \in Topics : BeginPublish(p, t)
  \/ \E p \in Procs : PublishReadConsumers(p)
  \/ \E p \in Procs : PublishSend(p)
  \/ \E p \in Procs : PublishReturn(p)

SpecMQRace == Init /\ [][NextMQRace]_vars

\* C39: a Publish that runs concurrently with Close never sends on a closed
\* consumer channel: no Publish panics.
PublishNeverPanics ==
  \A p \in Procs : proc[p].op = "Publish" => proc[p].pc # "panic"

(***************************************************************************)
(* The OAuth state parameter: GenerateAuthURL hands a state to a browser,  *)
(* and HandleCallback validates the state the browser brings back.  A      *)
(* string is the sequence of its character codes, a byte slice the         *)
(* sequence of its bytes.                                                  *)
(***************************************************************************)
\* cfg.OAuth.StateTTL, in ticks.
StateTTL == 1

\* cfg.OAuth.StateKey
StateKey == 7

\* The values rand.Read leaves in the 32 bytes of generateState.
RandomStates == {[i \in 1..32 |-> x] : x \in {0, 127, 255}}

\* strconv.FormatInt(n, 10) of n >= 0: the decimal digits, '0' = 48.
RECURSIVE FormatInt(_)
FormatInt(n) ==
  IF n < 10 THEN <<48 + n>> ELSE FormatInt(n \div 10) \o <<48 + (n % 10)>>

\* strconv.ParseInt(s, 10, 64) of an unsigned string: Null is the error.
RECURSIVE ParseInt(_)
ParseInt(s) ==
  IF s = <<>> \/ \E i \in DOMAIN s : s[i] < 48 \/ s[i] > 57 THEN Null
  ELSE IF Len(s) = 1 THEN s[1] - 48
  ELSE 10 * ParseInt(SubSeq(s, 1, Len(s) - 1)) + (s[Len(s)] - 48)

\* base64.URLEncoding.EncodeToString: an injective map of bytes into an
\* alphabet (codes from 1000) that holds neither digits nor ':'.
EncodeToString(b) == [i \in DOMAIN b |-> b[i] + 1000]

\* base64.URLEncoding.DecodeString: the bytes, and whether there is an error.
DecodeString(s) ==
  IF \E i \in DOMAIN s : s[i] < 1000 THEN [err |-> TRUE, b |-> <<>>]
  ELSE [err |-> FALSE, b |-> [i \in DOMAIN s |-> s[i] - 1000]]

\* hmac.New(sha256.New, key), Write(data), Sum(nil): a keyed function of the
\* bytes written, taken to be free of collisions.
HmacSum(key, data) == <<Len(data)>> \o [i \in DOMAIN data |-> (data[i] + key) % 256]

\* generateState at time t, with b the random bytes: the MAC covers the
\* timestamp and b.
generateState(t, b) ==
  LET timestamp == FormatInt(t)
      mac == HmacSum(StateKey, timestamp \o b)
  IN EncodeToString(timestamp \o <<58>> \o EncodeToString(mac))

\* validateState at time t: the MAC is recomputed over the timestamp alone.
validateState(t, state) ==
  LET decoded == DecodeString(state)
      colons == {i \in DOMAIN decoded.b : decoded.b[i] = 58}
      cut == Min(colons)
      timestamp == ParseInt(SubSeq(decoded.b, 1, cut - 1))
      expectedMAC == DecodeString(SubSeq(decoded.b, cut + 1, Len(decoded.b)))
  IN /\ ~decoded.err
     /\ colons # {}
     /\ timestamp # Null
     /\ ~(t - timestamp > StateTTL)
     /\ ~expectedMAC.err
     /\ expectedMAC.b = HmacSum(StateKey, SubSeq(decoded.b, 1, cut - 1))

\* GenerateAuthURL: the browser of flow p takes the state away.
GenerateAuthURL(p, b) ==
  /\ proc[p] = Idle
  /\ proc' = [proc EXCEPT ![p] = [op |-> "OAuth", state |-> generateState(now, b),
                                  at |-> now]]
  /\ UNCHANGED <<users, refreshTokens, sessions, now, nextSecret, nextSessionID,
                 issued, adminOps, wins, loggedOut, others>>

\* HandleCallback up to the validation of the state; the flow ends.
HandleCallback(p) ==
  /\ proc[p].op = "OAuth"
  /\ proc' = [proc EXCEPT ![p] = Idle]
  /\ UNCHANGED <<users, refreshTokens, sessions, now, nextSecret, nextSessionID,
                 issued, adminOps, wins, loggedOut, others>>

NextOAuth ==
  \/ \E p \in Procs, b \in RandomStates : GenerateAuthURL(p, b)
  \/ \E p \in Procs : HandleCallback(p)
  \/ Tick

SpecOAuth == Init /\ [][NextOAuth]_vars

\* C40: a state produced by GenerateAuthURL is accepted by validateState
\* when the callback presents it within StateTTL of its generation.
StateRoundTrip ==
  \A p \in Procs :
    (proc[p].op = "OAuth" /\ now - proc[p].at <= StateTTL)
      => validateState(now, proc[p].state)

\* C40, what validateState does accept: within StateTTL, a state whose MAC
\* was computed over the timestamp alone; and it refuses every state
\* presented later than StateTTL after the timestamp it carries.
TimestampOnlyStateAccepted ==
  /\ \A t \in 0..now :
       LET s == EncodeToString(FormatInt(t) \o <<58>>
                               \o EncodeToString(HmacSum(StateKey, FormatInt(t))))
       IN validateState(now, s) <=> now - t <= StateTTL
  /\ \A p \in Procs :
       (proc[p].op = "OAuth" /\ now - proc[p].at > StateTTL)
         => ~validateState(now, proc[p].state)

====
